---- MODULE Spec2Model ----
(***************************************************************************)
(* The /assess pipeline of server/index.js (the version with robustAsk):   *)
(* extractJson, deriveLevel, normalizeResult, callOnce, robustAsk and the  *)
(* route handler.                                                          *)
(*                                                                         *)
(* JavaScript strings are sequences of one-character strings.  JavaScript  *)
(* numbers are integers counted in tenths (85 is 8.5); NaN is a separate   *)
(* flag.  JSON values are records of one shape, told apart by the field k. *)
(***************************************************************************)
EXTENDS Integers, Sequences, FiniteSets, TLC

(* ------------------------------------------------------------------ *)
(* Characters and strings                                              *)
(* ------------------------------------------------------------------ *)

UpperSeq ==
    <<"A", "B", "C", "D", "E", "F", "G", "H", "I", "J", "K", "L", "M",
      "N", "O", "P", "Q", "R", "S", "T", "U", "V", "W", "X", "Y", "Z">>

LowerSeq ==
    <<"a", "b", "c", "d", "e", "f", "g", "h", "i", "j", "k", "l", "m",
      "n", "o", "p", "q", "r", "s", "t", "u", "v", "w", "x", "y", "z">>

DigitSeq ==
    <<"0", "1", "2", "3", "4", "5", "6", "7", "8", "9">>

Range(f) ==
    {f[i] : i \in DOMAIN f}

\* \s of the regular expressions and of String.prototype.trim
WhiteSpace ==
    {" ", "\n", "\t"}

\* \w of the regular expressions: [A-Za-z0-9_]
IsWordChar(c) ==
    c \in Range(UpperSeq) \cup Range(LowerSeq) \cup Range(DigitSeq) \cup {"_"}

LowerChar(c) ==
    IF c \in Range(UpperSeq)
    THEN LowerSeq[CHOOSE i \in 1..26 : UpperSeq[i] = c]
    ELSE c

DigitVal(c) ==
    (CHOOSE i \in 1..10 : DigitSeq[i] = c) - 1

toLowerCase(s) ==
    [i \in 1..Len(s) |-> LowerChar(s[i])]

RECURSIVE TrimStart(_)
TrimStart(s) ==
    IF s # <<>> /\ Head(s) \in WhiteSpace THEN TrimStart(Tail(s)) ELSE s

RECURSIVE TrimEnd(_)
TrimEnd(s) ==
    IF s # <<>> /\ s[Len(s)] \in WhiteSpace
    THEN TrimEnd(SubSeq(s, 1, Len(s) - 1))
    ELSE s

trim(s) ==
    TrimEnd(TrimStart(s))

RECURSIVE DropNonWord(_)
DropNonWord(s) ==
    IF s # <<>> /\ ~IsWordChar(Head(s)) THEN DropNonWord(Tail(s)) ELSE s

\* s.replace(/\W+/g, " ")
RECURSIVE ReplaceNonWord(_)
ReplaceNonWord(s) ==
    IF s = <<>> THEN <<>>
    ELSE IF IsWordChar(Head(s)) THEN <<Head(s)>> \o ReplaceNonWord(Tail(s))
    ELSE <<" ">> \o ReplaceNonWord(DropNonWord(Tail(s)))

\* s.includes(p)
Contains(s, p) ==
    \E i \in 1..(Len(s) - Len(p) + 1) : SubSeq(s, i, i + Len(p) - 1) = p

PLACEHOLDER_REASONS ==
    <<"R", "e", "s", "u", "l", "t", "s", " ", "n", "o", "r", "m", "a", "l", "i", "z", "e",
      "d", ".">>

FALLBACK_1 ==
    <<"V", "a", "r", "y", " ", "s", "e", "n", "t", "e", "n", "c", "e", " ", "o", "p", "e",
      "n", "i", "n", "g", "s", " ", "a", "n", "d", " ", "u", "s", "e", " ", "c", "o", "h",
      "e", "s", "i", "v", "e", " ", "d", "e", "v", "i", "c", "e", "s", " ", "(", "e", ".",
      "g", ".", ",", " ", "m", "o", "r", "e", "o", "v", "e", "r", ",", " ", "h", "o", "w",
      "e", "v", "e", "r", ")", ".">>

FALLBACK_2 ==
    <<"E", "x", "p", "l", "a", "i", "n", " ", "i", "d", "i", "o", "m", "s", " ", "w", "i",
      "t", "h", " ", "m", "e", "a", "n", "i", "n", "g", " ", "+", " ", "o", "n", "e", " ",
      "p", "r", "e", "c", "i", "s", "e", " ", "e", "x", "a", "m", "p", "l", "e", ".">>

FALLBACK_3 ==
    <<"C", "o", "m", "b", "i", "n", "e", " ", "p", "r", "o", "v", "i", "d", "e", "d", " ",
      "f", "r", "a", "g", "m", "e", "n", "t", "s", " ", "w", "i", "t", "h", " ", "n", "a",
      "t", "u", "r", "a", "l", " ", "c", "o", "n", "n", "e", "c", "t", "o", "r", "s", ";",
      " ", "a", "v", "o", "i", "d", " ", "r", "u", "n", "-", "o", "n", "s", ".">>

FALLBACK_4 ==
    <<"U", "s", "e", " ", "t", "h", "i", "r", "d", " ", "c", "o", "n", "d", "i", "t", "i",
      "o", "n", "a", "l", " ", "c", "o", "r", "r", "e", "c", "t", "l", "y", ":", " ", "'",
      "I", "f", " ", "I", " ", "h", "a", "d", " ", "k", "n", "o", "w", "n", ",", " ", "I",
      " ", "w", "o", "u", "l", "d", " ", "h", "a", "v", "e", " ", ".", ".", ".", "'", ".">>

DENY_1 ==
    <<"p", "r", "a", "c", "t", "i", "c", "e", " ", "m", "o", "r", "e">>

DENY_2 ==
    <<"i", "m", "p", "r", "o", "v", "e", " ", "v", "o", "c", "a", "b", "u", "l", "a", "r",
      "y">>

DENY_3 ==
    <<"w", "o", "r", "k", " ", "o", "n", " ", "g", "r", "a", "m", "m", "a", "r">>

DENY_4 ==
    <<"b", "e", " ", "c", "o", "n", "c", "i", "s", "e">>

OBJECT_OBJECT ==
    <<"[", "o", "b", "j", "e", "c", "t", " ", "O", "b", "j", "e", "c", "t", "]">>

S_PracticeMore ==
    <<"P", "r", "a", "c", "t", "i", "c", "e", " ", "m", "o", "r", "e">>

S_PracticeMORE ==
    <<"p", "r", "a", "c", "t", "i", "c", "e", " ", "M", "O", "R", "E", " ">>

S_Linking ==
    <<"U", "s", "e", " ", "l", "i", "n", "k", "i", "n", "g", " ", "w", "o", "r", "d", "s",
      ".">>

S_LinkingDup ==
    <<"u", "s", "e", " ", " ", "L", "I", "N", "K", "I", "N", "G", " ", "w", "o", "r", "d",
      "s">>

S_Short ==
    <<"o", "k", ".">>

S_Blank ==
    <<" ", " ">>

S_ReadDaily ==
    <<"R", "e", "a", "d", " ", "d", "a", "i", "l", "y", ".">>

S_WriteEssays ==
    <<"W", "r", "i", "t", "e", " ", "e", "s", "s", "a", "y", "s", ".">>

S_LearnIdioms ==
    <<"L", "e", "a", "r", "n", " ", "i", "d", "i", "o", "m", "s", ".">>

S_UseArticles ==
    <<"U", "s", "e", " ", "a", "r", "t", "i", "c", "l", "e", "s", ".">>

S_FixTenses ==
    <<"F", "i", "x", " ", "t", "e", "n", "s", "e", "s", ".">>

S_VaryVerbs ==
    <<"V", "a", "r", "y", " ", "v", "e", "r", "b", "s", ".">>

S_CheckCommas ==
    <<"C", "h", "e", "c", "k", " ", "c", "o", "m", "m", "a", "s", ".">>

S_GoodGrammar ==
    <<"G", "o", "o", "d", " ", "g", "r", "a", "m", "m", "a", "r", ".">>

S_Seven ==
    <<"7">>

S_NinePadded ==
    <<" ", "9", " ">>

S_FourPointFive ==
    <<"4", ".", "5">>

S_Abc ==
    <<"h", "i", "g", "h">>

S_True ==
    <<"t", "r", "u", "e">>

S_False ==
    <<"f", "a", "l", "s", "e">>

L_Beginner ==
    <<"B", "e", "g", "i", "n", "n", "e", "r">>

L_Intermediate ==
    <<"I", "n", "t", "e", "r", "m", "e", "d", "i", "a", "t", "e">>

L_Advanced ==
    <<"A", "d", "v", "a", "n", "c", "e", "d">>

L_NearNative ==
    <<"N", "e", "a", "r", "-", "n", "a", "t", "i", "v", "e">>

L_NativeLike ==
    <<"N", "a", "t", "i", "v", "e", "-", "l", "i", "k", "e">>

S_MindPrepositions ==
    <<"M", "i", "n", "d", " ", "p", "r", "e", "p", "o", "s", "i", "t", "i", "o", "n", "s",
      ".">>

K_score ==
    <<"s", "c", "o", "r", "e">>

K_level ==
    <<"l", "e", "v", "e", "l">>

K_reasons ==
    <<"r", "e", "a", "s", "o", "n", "s">>

K_suggestions ==
    <<"s", "u", "g", "g", "e", "s", "t", "i", "o", "n", "s">>

W_json ==
    <<"j", "s", "o", "n">>

W_Sorry ==
    <<"S", "o", "r", "r", "y">>

W_Here ==
    <<"H", "e", "r", "e">>

K_answers ==
    <<"a", "n", "s", "w", "e", "r", "s">>

A_Enjoy ==
    <<"I", " ", "e", "n", "j", "o", "y", " ", "r", "e", "a", "d", "i", "n", "g", ".">>

A_Means ==
    <<"I", "t", " ", "m", "e", "a", "n", "s", " ", "l", "u", "c", "k", ".">>

A_Evening ==
    <<"S", "e", "e", " ", "y", "o", "u", " ", "i", "n", " ", "t", "h", "e", " ", "e", "v",
      "e", "n", "i", "n", "g", ".">>

A_HadKnown ==
    <<"I", "f", " ", "I", " ", "h", "a", "d", " ", "k", "n", "o", "w", "n", ",", " ", "I",
      " ", "w", "o", "u", "l", "d", " ", "h", "a", "v", "e", " ", "l", "e", "f", "t", ".">>

MOCK_REASONS ==
    <<"S", "t", "r", "o", "n", "g", " ", "g", "r", "a", "m", "m", "a", "r", ";", " ", "i",
      "d", "i", "o", "m", " ", "a", "c", "c", "u", "r", "a", "t", "e", ";", " ", "f", "r",
      "a", "g", "m", "e", "n", "t", "s", " ", "n", "a", "t", "u", "r", "a", "l", ";", " ",
      "m", "i", "n", "o", "r", " ", "s", "t", "y", "l", "i", "s", "t", "i", "c", " ", "i",
      "s", "s", "u", "e", "s", ".">>

MOCK_S1 ==
    <<"V", "a", "r", "y", " ", "t", "r", "a", "n", "s", "i", "t", "i", "o", "n", "s", ".">>

MOCK_S2 ==
    <<"T", "i", "g", "h", "t", "e", "n", " ", "p", "h", "r", "a", "s", "i", "n", "g", ".">>

MOCK_S3 ==
    <<"U", "s", "e", " ", "r", "i", "c", "h", "e", "r", " ", "c", "o", "n", "n", "e", "c",
      "t", "o", "r", "s", ".">>

(* ------------------------------------------------------------------ *)
(* Numbers                                                             *)
(* ------------------------------------------------------------------ *)

Num(t) ==
    [nan |-> FALSE, v |-> t]

NaN ==
    [nan |-> TRUE, v |-> 0]

\* Math.round: floor(x + 0.5), NaN stays NaN.  The result is a whole number
\* of tenths.
MathRound(x) ==
    IF x.nan THEN NaN ELSE Num(((x.v + 5) \div 10) * 10)

\* Math.min and Math.max return NaN as soon as one argument is NaN.
MathMin(x, y) ==
    IF x.nan \/ y.nan THEN NaN ELSE IF x.v <= y.v THEN x ELSE y

MathMax(x, y) ==
    IF x.nan \/ y.nan THEN NaN ELSE IF x.v >= y.v THEN x ELSE y

AllDigits(s) ==
    \A i \in 1..Len(s) : s[i] \in Range(DigitSeq)

RECURSIVE DigitsVal(_)
DigitsVal(s) ==
    IF s = <<>> THEN 0 ELSE DigitsVal(SubSeq(s, 1, Len(s) - 1)) * 10 + DigitVal(s[Len(s)])

\* StringToNumber for decimal literals: optional sign, digits, optional
\* fraction.  The value is cut to tenths, which leaves Math.round unchanged.
\* Exponent, hexadecimal and Infinity literals are outside the sampled strings.
UnsignedToNumber(t) ==
    LET dots == {i \in 1..Len(t) : t[i] = "."}
        p    == IF dots = {} THEN Len(t) + 1 ELSE CHOOSE i \in dots : \A j \in dots : i <= j
        ip   == SubSeq(t, 1, p - 1)
        fp   == SubSeq(t, p + 1, Len(t))
    IN  IF AllDigits(ip) /\ AllDigits(fp) /\ (ip # <<>> \/ fp # <<>>)
        THEN Num(DigitsVal(ip) * 10 + (IF fp = <<>> THEN 0 ELSE DigitVal(fp[1])))
        ELSE NaN

StringToNumber(s) ==
    LET t == trim(s)
    IN  IF t = <<>> THEN Num(0)
        ELSE IF Head(t) = "-"
             THEN LET u == UnsignedToNumber(Tail(t))
                  IN  IF u.nan THEN NaN ELSE Num(0 - u.v)
        ELSE IF Head(t) = "+" THEN UnsignedToNumber(Tail(t))
        ELSE UnsignedToNumber(t)

RECURSIVE NatToString(_)
NatToString(n) ==
    IF n < 10 THEN <<DigitSeq[n + 1]>>
    ELSE NatToString(n \div 10) \o <<DigitSeq[(n % 10) + 1]>>

\* Number.prototype.toString of a number of tenths
NumberToString(t) ==
    LET a == IF t < 0 THEN 0 - t ELSE t
    IN  (IF t < 0 THEN <<"-">> ELSE <<>>)
        \o NatToString(a \div 10)
        \o (IF a % 10 = 0 THEN <<>> ELSE <<".", DigitSeq[(a % 10) + 1]>>)

(* ------------------------------------------------------------------ *)
(* JSON values                                                         *)
(* ------------------------------------------------------------------ *)

NoFields ==
    [x \in {} |-> 0]

Undefined ==
    [k |-> "undefined", b |-> FALSE, n |-> 0, s |-> <<>>, a |-> <<>>, o |-> NoFields]

JNull ==
    [k |-> "null", b |-> FALSE, n |-> 0, s |-> <<>>, a |-> <<>>, o |-> NoFields]

JBool(x) ==
    [k |-> "boolean", b |-> x, n |-> 0, s |-> <<>>, a |-> <<>>, o |-> NoFields]

JNum(t) ==
    [k |-> "number", b |-> FALSE, n |-> t, s |-> <<>>, a |-> <<>>, o |-> NoFields]

JStr(x) ==
    [k |-> "string", b |-> FALSE, n |-> 0, s |-> x, a |-> <<>>, o |-> NoFields]

JArr(x) ==
    [k |-> "array", b |-> FALSE, n |-> 0, s |-> <<>>, a |-> x, o |-> NoFields]

JObj(f) ==
    [k |-> "object", b |-> FALSE, n |-> 0, s |-> <<>>, a |-> <<>>, o |-> f]

\* the number NaN held in memory (JSON.parse never returns it)
JNaN ==
    [k |-> "nan", b |-> FALSE, n |-> 0, s |-> <<>>, a |-> <<>>, o |-> NoFields]

\* obj?.name: undefined for null, undefined, a missing property and the
\* primitives (none of the names read here is a property of a primitive or
\* of an array)
Get(obj, name) ==
    IF obj.k = "object" /\ name \in DOMAIN obj.o THEN obj.o[name] ELSE Undefined

\* x ?? d
Coalesce(x, d) ==
    IF x.k \in {"undefined", "null"} THEN d ELSE x

\* String(x)
RECURSIVE JsString(_)
RECURSIVE Join(_, _)
Join(a, i) ==
    IF i > Len(a) THEN <<>>
    ELSE (IF i > 1 THEN <<",">> ELSE <<>>)
         \o (IF a[i].k \in {"undefined", "null"} THEN <<>> ELSE JsString(a[i]))
         \o Join(a, i + 1)

JsString(x) ==
    CASE x.k = "string"    -> x.s
      [] x.k = "number"    -> NumberToString(x.n)
      [] x.k = "boolean"   -> IF x.b THEN S_True ELSE S_False
      [] x.k = "null"      -> <<"n", "u", "l", "l">>
      [] x.k = "undefined" -> <<"u", "n", "d", "e", "f", "i", "n", "e", "d">>
      [] x.k = "array"     -> Join(x.a, 1)
      [] x.k = "object"    -> OBJECT_OBJECT
      [] x.k = "nan"       -> <<"N", "a", "N">>

\* Number(x)
ToNumber(x) ==
    CASE x.k = "number"    -> Num(x.n)
      [] x.k = "string"    -> StringToNumber(x.s)
      [] x.k = "boolean"   -> Num(IF x.b THEN 10 ELSE 0)
      [] x.k = "null"      -> Num(0)
      [] x.k = "undefined" -> NaN
      [] x.k = "array"     -> StringToNumber(JsString(x))
      [] x.k = "object"    -> NaN
      [] x.k = "nan"       -> NaN

\* The truthiness of x in `x && ...`
Truthy(x) ==
    CASE x.k = "string"    -> x.s # <<>>
      [] x.k = "number"    -> x.n # 0
      [] x.k = "boolean"   -> x.b
      [] x.k = "null"      -> FALSE
      [] x.k = "undefined" -> FALSE
      [] x.k = "array"     -> TRUE
      [] x.k = "object"    -> TRUE
      [] x.k = "nan"       -> FALSE

(* ------------------------------------------------------------------ *)
(* deriveLevel and normalizeResult                                     *)
(* ------------------------------------------------------------------ *)

MinKeyLen ==
    6

MaxSuggestions ==
    6

Levels ==
    {L_Beginner, L_Intermediate, L_Advanced, L_NearNative, L_NativeLike}

\* Math.round(Number(score) || 0) and the thresholds; score is a number
deriveLevel(score) ==
    LET s == MathRound(IF score.nan \/ score.v = 0 THEN Num(0) ELSE score)
    IN  IF s.v >= 100 THEN L_NativeLike
        ELSE IF s.v >= 90 THEN L_NearNative
        ELSE IF s.v >= 70 THEN L_Advanced
        ELSE IF s.v >= 50 THEN L_Intermediate
        ELSE L_Beginner

\* Math.max(0, Math.min(10, Math.round(Number(obj?.score ?? 0))))
ScoreNum(obj) ==
    MathMax(Num(0), MathMin(Num(100), MathRound(ToNumber(Coalesce(Get(obj, K_score), JNum(0))))))

NonEmpty(s) ==
    Len(s) > 0

\* Cleaned that keeps the text entries untrimmed
Cleaned_NoTrim(suggestions) ==
    SelectSeq([i \in 1..Len(suggestions) |->
                  IF suggestions[i].k = "string" THEN suggestions[i].s ELSE <<>>],
              NonEmpty)

\* suggestions.map(s => typeof s === "string" ? s.trim() : "").filter(s => s.length > 0)
Cleaned(suggestions) ==
    SelectSeq([i \in 1..Len(suggestions) |->
                  IF suggestions[i].k = "string" THEN trim(suggestions[i].s) ELSE <<>>],
              NonEmpty)

\* s.toLowerCase().replace(/\W+/g, " ").trim()
SuggestionKey(s) ==
    trim(ReplaceNonWord(toLowerCase(s)))

\* /(practice more|improve vocabulary|work on grammar|be concise)/i.test(s)
IsGeneric(s) ==
    \E p \in {DENY_1, DENY_2, DENY_3, DENY_4} : Contains(toLowerCase(s), p)

\* the loop without the set of keys seen
RECURSIVE DeDupLoop_NoSeen(_, _, _, _)
DeDupLoop_NoSeen(cleaned, i, deDuped, seen) ==
    IF i > Len(cleaned) THEN deDuped
    ELSE LET s   == cleaned[i]
             key == SuggestionKey(s)
         IN  IF Len(key) < MinKeyLen THEN DeDupLoop_NoSeen(cleaned, i + 1, deDuped, seen)
             ELSE IF IsGeneric(s) THEN DeDupLoop_NoSeen(cleaned, i + 1, deDuped, seen)
             ELSE LET d2 == Append(deDuped, s)
                  IN  IF Len(d2) >= MaxSuggestions THEN d2
                      ELSE DeDupLoop_NoSeen(cleaned, i + 1, d2, seen)

\* the for loop over cleaned, from index i on
RECURSIVE DeDupLoop(_, _, _, _)
DeDupLoop(cleaned, i, deDuped, seen) ==
    IF i > Len(cleaned) THEN deDuped
    ELSE LET s   == cleaned[i]
             key == SuggestionKey(s)
         IN  IF Len(key) < MinKeyLen THEN DeDupLoop(cleaned, i + 1, deDuped, seen)
             ELSE IF IsGeneric(s) THEN DeDupLoop(cleaned, i + 1, deDuped, seen)
             ELSE LET d2 == IF key \notin seen THEN Append(deDuped, s) ELSE deDuped
                  IN  IF Len(d2) >= MaxSuggestions THEN d2
                      ELSE DeDupLoop(cleaned, i + 1, d2, seen \cup {key})

FallbackSuggestions_Generic ==
    <<FALLBACK_1, FALLBACK_2, FALLBACK_3, S_PracticeMore>>

FallbackSuggestions ==
    <<FALLBACK_1, FALLBACK_2, FALLBACK_3, FALLBACK_4>>

\* (obj?.reasons && String(obj.reasons).trim()) || "Results normalized."
Reasons(obj) ==
    LET r == Get(obj, K_reasons)
        t == IF Truthy(r) THEN trim(JsString(r)) ELSE <<>>
    IN  IF t # <<>> THEN t ELSE PLACEHOLDER_REASONS

normalizeResult(out) ==
    LET obj == IF out.k = "array"
               THEN (IF Len(out.a) >= 1 THEN out.a[1] ELSE Undefined)
               ELSE out
        scoreNum == ScoreNum(obj)
        sg == Get(obj, K_suggestions)
        suggestions == IF sg.k = "array" THEN sg.a ELSE <<>>
        deDuped == DeDupLoop(Cleaned(suggestions), 1, <<>>, {})
    IN  [score       |-> scoreNum,
         level       |-> deriveLevel(scoreNum),
         reasons     |-> Reasons(obj),
         suggestions |-> IF Len(deDuped) > 0 THEN deDuped ELSE FallbackSuggestions]

(* ------------------------------------------------------------------ *)
(* Sampled candidates (the values JSON.parse can return)               *)
(* ------------------------------------------------------------------ *)

\* longest list of suggestion entries enumerated in full
MaxSuggLen ==
    2

ScoreSamples ==
    {Undefined, JNull, JNum(-30), JNum(-4), JNum(0), JNum(44), JNum(45), JNum(50),
     JNum(65), JNum(85), JNum(90), JNum(94), JNum(95), JNum(100), JNum(120), JNum(146),
     JStr(S_Seven), JStr(S_NinePadded), JStr(S_FourPointFive), JStr(S_Abc), JStr(<<>>),
     JBool(TRUE), JBool(FALSE), JArr(<<>>), JArr(<<JNum(70)>>),
     JArr(<<JNum(10), JNum(20)>>), JObj(NoFields)}

ScoreFew ==
    {Undefined, JNum(85), JStr(S_Abc)}

ReasonsSamples ==
    {Undefined, JNull, JStr(<<>>), JStr(S_Blank), JStr(S_GoodGrammar),
     JStr(<<" ">> \o S_GoodGrammar \o <<"\n">>), JNum(0), JNum(45), JBool(TRUE),
     JBool(FALSE), JArr(<<>>), JArr(<<JNull, JNum(10)>>), JObj(NoFields)}

ReasonsFew ==
    {Undefined, JStr(S_GoodGrammar), JArr(<<>>)}

LevelSamples ==
    {Undefined, JStr(L_NativeLike), JStr(L_Beginner)}

SuggestionEntries ==
    {JStr(S_PracticeMore), JStr(S_PracticeMORE), JStr(S_Linking), JStr(S_LinkingDup),
     JStr(S_Short), JStr(S_Blank), JStr(<<" ">> \o S_ReadDaily), JNum(50), JNull}

DistinctSuggestions ==
    <<JStr(S_ReadDaily), JStr(S_WriteEssays), JStr(S_LearnIdioms), JStr(S_UseArticles),
      JStr(S_FixTenses), JStr(S_VaryVerbs), JStr(S_CheckCommas), JStr(S_MindPrepositions)>>

RECURSIVE SeqsUpTo(_, _)
SeqsUpTo(S, n) ==
    IF n = 0 THEN {<<>>}
    ELSE LET shorter == SeqsUpTo(S, n - 1)
         IN  shorter \cup {Append(q, x) : q \in shorter, x \in S}

\* S_Linking in another letter case and with other whitespace
V_Linking ==
    <<" ">> \o toLowerCase(S_Linking) \o <<" ", "\n">>

SuggestionSamples ==
    {JArr(q) : q \in SeqsUpTo(SuggestionEntries, MaxSuggLen)}
    \cup {JArr(SubSeq(DistinctSuggestions, 1, n) \o <<JStr(S_Linking), JStr(V_Linking)>>) :
             n \in 4..7}
    \cup {JArr(<<JStr(S_LinkingDup), JStr(S_Linking), JStr(V_Linking)>>),
          JArr(<<JStr(V_Linking), JStr(S_ReadDaily), JStr(S_Linking)>>)}
    \cup {JArr(SubSeq(DistinctSuggestions, 1, n)) : n \in 1..Len(DistinctSuggestions)}
    \cup {JArr(SubSeq(DistinctSuggestions, 1, n) \o <<JStr(S_LinkingDup), JStr(S_Linking)>>) :
             n \in 4..5}
    \cup {Undefined, JNull, JStr(S_Linking), JObj(NoFields)}

SuggestionFew ==
    {Undefined, JArr(<<JStr(S_Linking), JStr(S_LinkingDup)>>), JArr(DistinctSuggestions)}

Field(name, v) ==
    IF v.k = "undefined" THEN NoFields ELSE name :> v

MkObj(sc, lv, re, su) ==
    JObj(Field(K_score, sc) @@ Field(K_level, lv) @@ Field(K_reasons, re)
         @@ Field(K_suggestions, su))

ObjectSamples ==
    {MkObj(sc, lv, re, su) :
        sc \in ScoreSamples, lv \in LevelSamples, re \in ReasonsFew, su \in SuggestionFew}
    \cup {MkObj(sc, Undefined, re, su) :
        sc \in ScoreFew, re \in ReasonsSamples, su \in SuggestionSamples}

ObjectFew ==
    {MkObj(sc, JStr(L_Advanced), JStr(S_GoodGrammar), su) :
        sc \in {JNum(146), JNum(-30), JObj(NoFields)}, su \in SuggestionFew}

Candidates ==
    ObjectSamples
    \cup {JArr(<<o>>) : o \in ObjectFew}
    \cup {JArr(<<o, MkObj(JNum(90), Undefined, Undefined, Undefined)>>) : o \in ObjectFew}
    \cup {JArr(<<>>), JArr(<<JNull>>), JArr(<<JArr(<<>>)>>), JNum(70), JNum(0),
          JStr(S_Seven), JStr(<<>>), JBool(TRUE), JBool(FALSE), JNull}

(* ------------------------------------------------------------------ *)
(* Completion texts and extractJson                                    *)
(*                                                                     *)
(* A completion text is a sequence of tokens: a run of whitespace      *)
(* ("ws"), a prose word ("word": no brace, bracket, quote or backtick  *)
(* in it), a triple backtick ("fence"), the JSON punctuation, a JSON   *)
(* string literal ("str", s its content), a JSON number ("num", n in   *)
(* tenths) and the literals true, false, null.  Backticks inside a     *)
(* string literal are outside the sampled texts.                       *)
(* ------------------------------------------------------------------ *)

Tok(t) ==
    [t |-> t, s |-> <<>>, n |-> 0]

TWs(s) ==
    [t |-> "ws", s |-> s, n |-> 0]

TWord(s) ==
    [t |-> "word", s |-> s, n |-> 0]

TStr(s) ==
    [t |-> "str", s |-> s, n |-> 0]

TNum(n) ==
    [t |-> "num", s |-> <<>>, n |-> n]

RECURSIVE TrimStartToks(_)
TrimStartToks(ts) ==
    IF ts # <<>> /\ Head(ts).t = "ws" THEN TrimStartToks(Tail(ts)) ELSE ts

RECURSIVE TrimEndToks(_)
TrimEndToks(ts) ==
    IF ts # <<>> /\ ts[Len(ts)].t = "ws"
    THEN TrimEndToks(SubSeq(ts, 1, Len(ts) - 1))
    ELSE ts

TrimToks(ts) ==
    TrimEndToks(TrimStartToks(ts))

IsPrefix(p, s) ==
    Len(p) <= Len(s) /\ SubSeq(s, 1, Len(p)) = p

\* (?:json)? of the fence pattern, case-insensitive: the tag is consumed when
\* the text after the backticks starts with it
DropTag(ts) ==
    IF ts # <<>> /\ Head(ts).t = "word" /\ IsPrefix(W_json, toLowerCase(Head(ts).s))
    THEN IF Len(Head(ts).s) = Len(W_json)
         THEN Tail(ts)
         ELSE <<TWord(SubSeq(Head(ts).s, Len(W_json) + 1, Len(Head(ts).s)))>> \o Tail(ts)
    ELSE ts

\* s.match(/```(?:json)?\s*([\s\S]*?)```/i): the leftmost opening fence that
\* has a closing fence after it, and the text captured between them
FenceMatch(ts) ==
    LET fences == {i \in 1..Len(ts) : ts[i].t = "fence"}
    IN  IF Cardinality(fences) < 2 THEN [found |-> FALSE, cap |-> <<>>]
        ELSE LET open  == CHOOSE i \in fences : \A j \in fences : i <= j
                 close == CHOOSE i \in fences \ {open} : \A j \in fences \ {open} : i <= j
                 inner == TrimStartToks(DropTag(SubSeq(ts, open + 1, close - 1)))
             IN  [found |-> TRUE, cap |-> inner]

\* whether the character c occurs in the text of token tok
HasChar(tok, c) ==
    tok.t = c \/ (tok.t = "str" /\ c \in Range(tok.s))

\* s.indexOf("{") and s.lastIndexOf("}") as token positions, 0 for -1
IndexOfTok(ts, c) ==
    LET hits == {i \in 1..Len(ts) : HasChar(ts[i], c)}
    IN  IF hits = {} THEN 0 ELSE CHOOSE i \in hits : \A j \in hits : i <= j

LastIndexOfTok_First(ts, c) ==
    LET hits == {i \in 1..Len(ts) : HasChar(ts[i], c)}
    IN  IF hits = {} THEN 0 ELSE CHOOSE i \in hits : \A j \in hits : i <= j

LastIndexOfTok(ts, c) ==
    LET hits == {i \in 1..Len(ts) : HasChar(ts[i], c)}
    IN  IF hits = {} THEN 0 ELSE CHOOSE i \in hits : \A j \in hits : i >= j

FirstPos(s, c) ==
    CHOOSE i \in 1..Len(s) : s[i] = c /\ \A j \in 1..(i - 1) : s[j] # c

LastPos(s, c) ==
    CHOOSE i \in 1..Len(s) : s[i] = c /\ \A j \in (i + 1)..Len(s) : s[j] # c

\* s.slice(first, last + 1) when first !== -1 && last !== -1 && last > first.
\* A cut that falls inside a string literal leaves an unterminated literal,
\* shown as the token "cut", which JSON.parse rejects.
SliceBraces(ts) ==
    LET first == IndexOfTok(ts, "{")
        last  == LastIndexOfTok(ts, "}")
        after == \/ last > first
                 \/ /\ last = first
                    /\ FirstPos(ts[first].s, "{") < LastPos(ts[first].s, "}")
    IN  IF first # 0 /\ last # 0 /\ after
        THEN IF ts[first].t = "{" /\ ts[last].t = "}"
             THEN SubSeq(ts, first, last)
             ELSE <<Tok("cut")>>
        ELSE ts

ParseFail ==
    [ok |-> FALSE, v |-> Undefined, rest |-> <<>>]

ParseOk(v, rest) ==
    [ok |-> TRUE, v |-> v, rest |-> rest]

RECURSIVE ParseValue(_)
RECURSIVE ParseMembers(_, _)
RECURSIVE ParseElements(_, _)

\* one JSON value at the head of ts (whitespace already removed)
ParseValue(ts) ==
    IF ts = <<>> THEN ParseFail
    ELSE LET h == Head(ts)
             r == Tail(ts)
         IN  CASE h.t = "str"   -> ParseOk(JStr(h.s), r)
               [] h.t = "num"   -> ParseOk(JNum(h.n), r)
               [] h.t = "true"  -> ParseOk(JBool(TRUE), r)
               [] h.t = "false" -> ParseOk(JBool(FALSE), r)
               [] h.t = "null"  -> ParseOk(JNull, r)
               [] h.t = "{"     -> IF r # <<>> /\ Head(r).t = "}"
                                   THEN ParseOk(JObj(NoFields), Tail(r))
                                   ELSE ParseMembers(r, NoFields)
               [] h.t = "["     -> IF r # <<>> /\ Head(r).t = "]"
                                   THEN ParseOk(JArr(<<>>), Tail(r))
                                   ELSE ParseElements(r, <<>>)
               [] OTHER         -> ParseFail

\* "key": value, then "," or "}"; a repeated key keeps its last value
ParseMembers(ts, acc) ==
    IF Len(ts) < 3 \/ ts[1].t # "str" \/ ts[2].t # ":" THEN ParseFail
    ELSE LET pv == ParseValue(SubSeq(ts, 3, Len(ts)))
         IN  IF ~pv.ok \/ pv.rest = <<>> THEN ParseFail
             ELSE LET acc2 == (ts[1].s :> pv.v) @@ acc
                  IN  IF Head(pv.rest).t = "}" THEN ParseOk(JObj(acc2), Tail(pv.rest))
                      ELSE IF Head(pv.rest).t = ","
                           THEN ParseMembers(Tail(pv.rest), acc2)
                           ELSE ParseFail

ParseElements(ts, acc) ==
    LET pv == ParseValue(ts)
    IN  IF ~pv.ok \/ pv.rest = <<>> THEN ParseFail
        ELSE IF Head(pv.rest).t = "]" THEN ParseOk(JArr(Append(acc, pv.v)), Tail(pv.rest))
        ELSE IF Head(pv.rest).t = "," THEN ParseElements(Tail(pv.rest), Append(acc, pv.v))
        ELSE ParseFail

IsNotWs(tok) ==
    tok.t # "ws"

\* JSON.parse(s): one value and nothing after it
JSONparse(ts) ==
    LET pv == ParseValue(SelectSeq(ts, IsNotWs))
    IN  IF pv.ok /\ pv.rest = <<>>
        THEN [ok |-> TRUE, v |-> pv.v, msg |-> "none"]
        ELSE [ok |-> FALSE, v |-> Undefined, msg |-> "SyntaxError"]

extractJson(raw) ==
    IF raw = <<>> THEN [ok |-> FALSE, v |-> Undefined, msg |-> "Empty response"]
    ELSE LET s0    == TrimToks(raw)
             fence == FenceMatch(s0)
             s1    == IF fence.found /\ fence.cap # <<>> THEN TrimToks(fence.cap) ELSE s0
         IN  JSONparse(SliceBraces(s1))

(* ------------------------------------------------------------------ *)
(* Configuration, requests and upstream completions                    *)
(* ------------------------------------------------------------------ *)

\* most fallback models configured in FALLBACK_MODELS
MaxFallbacks ==
    2

DEFAULT_MODEL ==
    "default-model"

FallbackNames ==
    <<"fallback-1", "fallback-2", "fallback-3", "fallback-4">>

NoValue ==
    "<undefined>"

\* the environment read at startup: FALLBACK_MODELS and DEBUG_SECRET
Configs ==
    {[fallbacks |-> SubSeq(FallbackNames, 1, n), debugSecret |-> ds] :
        n \in 0..(IF MaxFallbacks < 4 THEN MaxFallbacks ELSE 4), ds \in {"", "s3cret"}}

Body(answers) ==
    JObj(K_answers :> JArr(answers))

GoodAnswers ==
    <<JStr(A_Enjoy), JStr(A_Means), JStr(A_Evening), JStr(A_HadKnown)>>

BlankAnswers ==
    <<JStr(A_Enjoy), JStr(<<" ">>), JStr(A_Evening), JStr(A_HadKnown)>>

BadBodies ==
    {Body(SubSeq(GoodAnswers, 1, 3)),
     Body(GoodAnswers \o <<JStr(A_Enjoy)>>),
     Body(<<JStr(A_Enjoy), JStr(<<>>), JStr(A_Evening), JStr(A_HadKnown)>>),
     Body(<<JStr(A_Enjoy), JNum(70), JStr(A_Evening), JStr(A_HadKnown)>>),
     JObj(NoFields),
     JObj(K_answers :> JStr(A_Enjoy))}

Query(mock, debug, secret, model) ==
    [mock |-> mock, debug |-> debug, secret |-> secret, model |-> model]

PlainQuery ==
    Query(NoValue, NoValue, NoValue, NoValue)

Queries ==
    {PlainQuery,
     Query(NoValue, "1", "s3cret", NoValue),
     Query(NoValue, "1", "", NoValue),
     Query(NoValue, "1", NoValue, NoValue),
     Query(NoValue, NoValue, "s3cret", "override-model"),
     Query(NoValue, "1", "wrong", "override-model"),
     Query(NoValue, "1", "", "override-model")}

\* the query strings of GET /meta
MetaQueries ==
    {PlainQuery,
     Query(NoValue, NoValue, "s3cret", "override-model"),
     Query(NoValue, NoValue, "wrong", "override-model"),
     Query(NoValue, NoValue, "", "override-model"),
     Query(NoValue, NoValue, NoValue, "override-model")}

MockQueries ==
    {Query("1", NoValue, NoValue, NoValue),
     Query("1", "1", "s3cret", "override-model")}

Requests ==
    {[body |-> b, query |-> PlainQuery] : b \in BadBodies}
    \cup {[body |-> Body(GoodAnswers), query |-> q] : q \in Queries \cup MockQueries}
    \cup {[body |-> Body(BlankAnswers), query |-> PlainQuery]}

NoRequest ==
    [body |-> JNull, query |-> PlainQuery]

\* AnswersSchema.safeParse(body).success:
\* z.object({ answers: z.array(z.string().min(1)).length(4) })
AnswersValid(body) ==
    /\ body.k = "object"
    /\ Get(body, K_answers).k = "array"
    /\ Len(Get(body, K_answers).a) = 4
    /\ \A i \in 1..4 :
          /\ Get(body, K_answers).a[i].k = "string"
          /\ Len(Get(body, K_answers).a[i].s) >= 1

\* req.query.secret === DEBUG_SECRET
SecretMatches(c, q) ==
    q.secret # NoValue /\ q.secret = c.debugSecret

\* req.query.debug === "1" && req.query.secret === DEBUG_SECRET
Debug(c, q) ==
    q.debug = "1" /\ SecretMatches(c, q)

\* req.query.model && req.query.secret === DEBUG_SECRET ? String(req.query.model) : null
ModelOverride(c, q) ==
    IF q.model # NoValue /\ q.model # "" /\ SecretMatches(c, q) THEN q.model ELSE NoValue

\* modelOverride || DEFAULT_MODEL
PreferredModel(c, q) ==
    IF ModelOverride(c, q) # NoValue THEN ModelOverride(c, q) ELSE DEFAULT_MODEL

\* A prompt is the sequence of the pieces it is concatenated from.
Piece(name) ==
    [p |-> name, s |-> <<>>]

Answer(a) ==
    [p |-> "answer", s |-> a]

\* `Part 1:\n${a1}\n\n` + ... + `Part 4:\n${a4}`
UserText(answers) ==
    <<Piece("Part 1:"), Answer(answers[1].s), Piece("Part 2:"), Answer(answers[2].s),
      Piece("Part 3:"), Answer(answers[3].s), Piece("Part 4:"), Answer(answers[4].s)>>

\* retryInstr + "\n\n" + userText
RetryUserText(userText) ==
    <<Piece("retryInstr")>> \o userText

\* robustAsk: user = STRICT_JSON_INSTR + "\n\nUser responses:\n" + userText
RobustAskUser(userText) ==
    <<Piece("STRICT_JSON_INSTR"), Piece("User responses:")>> \o userText

\* the errors client.chat.completions.create can throw, by message
ErrorMessages ==
    {"Request timed out.", "400 response_format is not supported"}

Lb == Tok("{")
Rb == Tok("}")
Colon == Tok(":")
Comma == Tok(",")
Nl == TWs(<<"\n">>)
Sp == TWs(<<" ">>)

\* {"score":8.5,"level":"Beginner","reasons":"Good grammar.","suggestions":["Use linking words."]}
R_Object ==
    <<Lb, TStr(K_score), Colon, TNum(85), Comma, TStr(K_level), Colon, TStr(L_Beginner),
      Comma, TStr(K_reasons), Colon, TStr(S_GoodGrammar), Comma, TStr(K_suggestions), Colon,
      Tok("["), TStr(S_Linking), Tok("]"), Rb>>

\* Here ```json\n{"score":12,"suggestions":["Practice more","practice MORE "]}\n```
R_Fenced ==
    <<TWord(W_Here), Sp, Tok("fence"), TWord(W_json), Nl, Lb, TStr(K_score), Colon,
      TNum(120), Comma, TStr(K_suggestions), Colon, Tok("["), TStr(S_PracticeMore), Comma,
      TStr(S_PracticeMORE), Tok("]"), Rb, Nl, Tok("fence")>>

\* {"score":"high","level":"Advanced"}
R_BadScore ==
    <<Lb, TStr(K_score), Colon, TStr(S_Abc), Comma, TStr(K_level), Colon, TStr(L_Advanced),
      Rb>>

\* Sorry
R_Prose ==
    <<TWord(W_Sorry)>>

\* {"score":7   (cut off by max_tokens)
R_Truncated ==
    <<Lb, TStr(K_score), Colon, TNum(70)>>

\* the content is missing: r.choices?.[0]?.message?.content ?? ""
R_Empty ==
    <<>>

RawSamples ==
    {R_Object, R_Fenced, R_BadScore, R_Prose, R_Empty}

(* ------------------------------------------------------------------ *)
(* State                                                               *)
(* ------------------------------------------------------------------ *)

VARIABLES
    cfg,         \* the configuration read at startup
    req,         \* the /assess request being handled
    pc,          \* "idle", "round1", "round2" (awaiting robustAsk), "done", or
                 \* "meta" (GET /meta answered)
    run,         \* the locals of the running robustAsk
    h,           \* the locals of the handler: raw, usedModel
    calls,       \* every upstream call issued for the request, in order
    extractions, \* every extractJson call of the handler, in order
    resp,        \* the responses sent: their number, the last status and body
    cand,        \* the candidate handed to normalizeResult
    norm,        \* [done, r]: whether normalizeResult has returned, and its result
    norm2,       \* [done, r]: normalizeResult applied to its own result
    xj,          \* extractJson applied to a wrapped JSON object
    rl,          \* the rate limiter of /assess and the requests passing through it
    wake,        \* one call of the client's wakeServer
    parked,      \* the locals of a second /assess request, while the first one runs
    ui           \* the web client: the component's state and its running tasks

vars ==
    <<cfg, req, pc, run, h, calls, extractions, resp, cand, norm, norm2, xj, rl, wake,
      parked, ui>>

\* what the /assess handler never touches
sideVars ==
    <<norm2, xj, rl, wake, parked, ui>>

pipeVars ==
    <<cfg, req, pc, run, h, calls, extractions, resp>>

NoResult ==
    [score |-> Num(0), level |-> <<>>, reasons |-> <<>>, suggestions |-> <<>>]

NoRun ==
    [models |-> <<>>, idx |-> 0, strict |-> TRUE, user |-> <<>>, lastError |-> NoValue,
     awaiting |-> 0]

NoLocals ==
    [raw |-> <<>>, usedModel |-> NoValue]

NoBody ==
    [fields |-> {}, score |-> JNull, level |-> <<>>, reasons |-> <<>>,
     suggestions |-> <<>>, error |-> NoValue, model |-> NoValue,
     raw1 |-> <<>>, raw2 |-> <<>>, usedModel |-> NoValue]

NoResponse ==
    [count |-> 0, status |-> 0, body |-> NoBody]

NoNorm ==
    [done |-> FALSE, r |-> NoResult]

\* the locals of a handler that has not been entered
NoFrame ==
    [req |-> NoRequest, pc |-> "idle", run |-> NoRun, h |-> NoLocals, calls |-> <<>>,
     extractions |-> <<>>, resp |-> NoResponse]

\* no text has been handed to extractJson
NoWrap ==
    [pre |-> <<>>, fenced |-> FALSE, tag |-> FALSE, pad |-> <<>>, post |-> <<>>]

NoExtract ==
    [j |-> JNull, w |-> NoWrap, done |-> FALSE,
     out |-> [ok |-> FALSE, v |-> Undefined, msg |-> "none"]]

\* the clients the rate limiter tells apart (by req.ip)
Clients ==
    {"10.0.0.1", "10.0.0.2"}

\* windows of the rate limiter beyond the first
MaxWindows ==
    1

\* rateLimit({ max: 20 })
RATE_MAX ==
    20

\* rateLimit({ windowMs: 60_000 })
RATE_WINDOW_MS ==
    60000

\* the last decision of the limiter
NoDecision ==
    [path |-> "", c |-> "", k |-> 0, status |-> 0, handled |-> FALSE]

NoHits ==
    [c \in Clients |-> 0]

\* The limiter as constructed: no hit counted, nothing in flight.  seen,
\* passed and prev count the /assess requests of each client: sent in the
\* running window, handed to the route handler in the running window, and
\* handed to it in the window before while one of its requests is in flight.
NoLimiter ==
    [hits      |-> NoHits,
     resetTime |-> RATE_WINDOW_MS,
     pending   |-> <<>>,
     seen      |-> NoHits,
     passed    |-> NoHits,
     prev      |-> NoHits,
     last      |-> NoDecision]

\* wakeServer has not been called
NoWake ==
    [pc |-> "idle", url |-> "", maxAttempts |-> 0, start |-> 0, attempt |-> 0,
     backoff |-> 0, probes |-> <<>>, waits |-> <<>>, errors |-> <<>>]

\* the prewarm task before the effect has run
NoPrewarm ==
    [pc |-> "mount", w |-> NoWake]

\* the component before it is rendered
NoClient ==
    [phase |-> "idle", ticker |-> FALSE, filled |-> FALSE,
     result |-> FALSE, errMsg |-> "", serverModel |-> FALSE,
     pre |-> NoPrewarm, subs |-> <<>>]

(* ------------------------------------------------------------------ *)
(* callOnce and robustAsk                                              *)
(* ------------------------------------------------------------------ *)

StrictMaxTokens ==
    700

RelaxedMaxTokens ==
    550

\* callOnce that sends response_format whatever useJsonFormat says
callOnce_AlwaysJsonFormat(round, idx, model, user, useJsonFormat, maxTokens) ==
    [round |-> round, idx |-> idx, model |-> model, system |-> "SYSTEM_PROMPT",
     user |-> user, temperature |-> 0, maxTokens |-> maxTokens,
     responseFormat |-> "json_object",
     status |-> "pending", text |-> <<>>]

\* the request callOnce sends: response_format is set iff useJsonFormat
callOnce(round, idx, model, user, useJsonFormat, maxTokens) ==
    [round |-> round, idx |-> idx, model |-> model, system |-> "SYSTEM_PROMPT",
     user |-> user, temperature |-> 0, maxTokens |-> maxTokens,
     responseFormat |-> IF useJsonFormat THEN "json_object" ELSE NoValue,
     status |-> "pending", text |-> <<>>]

\* modelsToTry = [preferredModel, ...FALLBACK_MODELS] and the loop's first position
StartRun(c, preferredModel, userText) ==
    [models |-> <<preferredModel>> \o c.fallbacks, idx |-> 1, strict |-> TRUE,
     user |-> RobustAskUser(userText), lastError |-> NoValue, awaiting |-> 0]

\* StepCalls with the relaxed call started together with the strict one
StepCalls_Both(round, r) ==
    IF r.strict
    THEN <<callOnce(round, r.idx, r.models[r.idx], r.user, TRUE, StrictMaxTokens),
           callOnce(round, r.idx, r.models[r.idx], r.user, FALSE, RelaxedMaxTokens)>>
    ELSE <<callOnce(round, r.idx, r.models[r.idx], r.user, FALSE, RelaxedMaxTokens)>>

\* the calls robustAsk starts at position (idx, strict) before it awaits:
\* one callOnce, with json_object and 700 tokens or without and 550 tokens
StepCalls(round, r) ==
    <<callOnce(round, r.idx, r.models[r.idx], r.user, r.strict,
               IF r.strict THEN StrictMaxTokens ELSE RelaxedMaxTokens)>>

\* NextAttempt without the relaxed retry of the same model
NextAttempt_SkipRelaxed(r) ==
    IF r.idx < Len(r.models) THEN [exhausted |-> FALSE, idx |-> r.idx + 1, strict |-> TRUE]
    ELSE [exhausted |-> TRUE, idx |-> r.idx, strict |-> r.strict]

\* NextAttempt that leaves the loop after the first model
NextAttempt_PrimaryOnly(r) ==
    IF r.strict THEN [exhausted |-> FALSE, idx |-> r.idx, strict |-> FALSE]
    ELSE [exhausted |-> TRUE, idx |-> r.idx, strict |-> r.strict]

\* where the loop goes when the awaited call has thrown: the same model
\* without response_format, then the next model, then out of the loop
NextAttempt(r) ==
    IF r.strict THEN [exhausted |-> FALSE, idx |-> r.idx, strict |-> FALSE]
    ELSE IF r.idx < Len(r.models) THEN [exhausted |-> FALSE, idx |-> r.idx + 1, strict |-> TRUE]
    ELSE [exhausted |-> TRUE, idx |-> r.idx, strict |-> r.strict]

(* ------------------------------------------------------------------ *)
(* The /assess handler                                                 *)
(* ------------------------------------------------------------------ *)

BadInputBody ==
    [NoBody EXCEPT !.fields = {"error"}, !.error = "Bad input"]

MockBody_DefaultModel(c, q) ==
    [NoBody EXCEPT !.fields = {"score", "level", "reasons", "suggestions", "_meta"},
                   !.score = JNum(80), !.level = L_Advanced, !.reasons = MOCK_REASONS,
                   !.suggestions = <<MOCK_S1, MOCK_S2, MOCK_S3>>,
                   !.model = DEFAULT_MODEL]

\* the fixed mock object
MockBody(c, q) ==
    [NoBody EXCEPT !.fields = {"score", "level", "reasons", "suggestions", "_meta"},
                   !.score = JNum(80), !.level = L_Advanced, !.reasons = MOCK_REASONS,
                   !.suggestions = <<MOCK_S1, MOCK_S2, MOCK_S3>>,
                   !.model = PreferredModel(c, q)]

\* SuccessBody that also carries the completion text
SuccessBody_WithRaw(n, usedModel) ==
    [NoBody EXCEPT !.fields = {"score", "level", "reasons", "suggestions", "_meta", "raw"},
                   !.score = IF n.score.nan THEN JNull ELSE JNum(n.score.v),
                   !.level = n.level, !.reasons = n.reasons,
                   !.suggestions = n.suggestions, !.model = usedModel]

\* res.json({ ...norm, _meta: { model: usedModel } }): JSON.stringify writes NaN as null
SuccessBody(n, usedModel) ==
    [NoBody EXCEPT !.fields = {"score", "level", "reasons", "suggestions", "_meta"},
                   !.score = IF n.score.nan THEN JNull ELSE JNum(n.score.v),
                   !.level = n.level, !.reasons = n.reasons,
                   !.suggestions = n.suggestions, !.model = usedModel]

\* /meta: overrideAllowed ? req.query.model : DEFAULT_MODEL
MetaModel(c, q) ==
    IF SecretMatches(c, q) /\ q.model # NoValue THEN q.model ELSE DEFAULT_MODEL

\* res.json({ model, baseURL: BASE_URL, fallback: FALLBACK_MODELS })
MetaBody(c, q) ==
    [NoBody EXCEPT !.fields = {"model", "baseURL", "fallback"}, !.model = MetaModel(c, q)]

\* res.status(500).json({ raw1: raw, raw2, usedModel: used2 })
DebugBody(raw1, raw2, used2) ==
    [NoBody EXCEPT !.fields = {"raw1", "raw2", "usedModel"},
                   !.raw1 = raw1, !.raw2 = raw2, !.usedModel = used2]

\* CatchBody that answers a placeholder assessment
CatchBody_Placeholder(message) ==
    [SuccessBody(normalizeResult(Undefined), DEFAULT_MODEL) EXCEPT
        !.fields = {"score", "level", "reasons", "suggestions", "error", "_meta"},
        !.error = message]

\* catch (e): msg = e && e.message ? String(e.message) : "Upstream provider error"
CatchBody(message) ==
    [NoBody EXCEPT !.fields = {"error", "_meta"},
                   !.error = IF message # NoValue /\ message # ""
                             THEN message ELSE "Upstream provider error",
                   !.model = DEFAULT_MODEL]

\* Decide without the retry run
Decide_NoRetry(round, debug, raw) ==
    IF extractJson(raw).ok THEN "success" ELSE "throw"

\* Decide that retries after every text that cannot be parsed
Decide_RetryAgain(round, debug, raw) ==
    IF extractJson(raw).ok THEN "success" ELSE "retry"

\* Decide that runs the retry also when the first text was parsed
Decide_AlwaysRetry(round, debug, raw) ==
    IF round = 1 THEN "retry"
    ELSE IF debug THEN "debug"
    ELSE IF extractJson(raw).ok THEN "success" ELSE "throw"

\* what the handler does with the text a robustAsk run returned
Decide(round, debug, raw) ==
    IF round = 1
    THEN IF extractJson(raw).ok THEN "success" ELSE "retry"
    ELSE IF debug THEN "debug"
    ELSE IF extractJson(raw).ok THEN "success" ELSE "throw"

Round ==
    IF pc = "round1" THEN 1 ELSE 2

\* Respond that ends the request without sending
Respond_Nothing(status, body) ==
    /\ resp' = resp
    /\ pc' = "done"

Respond(status, body) ==
    /\ resp' = [count |-> resp.count + 1, status |-> status, body |-> body]
    /\ pc' = "done"

Settled(i, status, text) ==
    [calls EXCEPT ![i].status = status, ![i].text = text]

Init ==
    /\ cfg \in Configs
    /\ req = NoRequest
    /\ pc = "idle"
    /\ run = NoRun
    /\ h = NoLocals
    /\ calls = <<>>
    /\ extractions = <<>>
    /\ resp = NoResponse
    /\ cand = JNull
    /\ norm = NoNorm
    /\ norm2 = NoNorm
    /\ xj = NoExtract
    /\ rl = NoLimiter
    /\ wake = NoWake
    /\ parked = NoFrame
    /\ ui = NoClient

\* a request whose body fails AnswersSchema
ReceiveBadInput ==
    /\ pc = "idle"
    /\ \E r \in Requests :
          /\ ~AnswersValid(r.body)
          /\ req' = r
          /\ Respond(400, BadInputBody)
    /\ UNCHANGED <<cfg, run, h, calls, extractions, cand, norm, sideVars>>

\* GET /meta
ReceiveMeta ==
    /\ pc = "idle"
    /\ \E q \in MetaQueries :
          /\ req' = [body |-> JNull, query |-> q]
          /\ resp' = [count |-> resp.count + 1, status |-> 200, body |-> MetaBody(cfg, q)]
          /\ pc' = "meta"
    /\ UNCHANGED <<cfg, run, h, calls, extractions, cand, norm, sideVars>>

\* a valid request with mock=1
ReceiveMock ==
    /\ pc = "idle"
    /\ \E r \in Requests :
          /\ AnswersValid(r.body)
          /\ r.query.mock = "1"
          /\ req' = r
          /\ Respond(200, MockBody(cfg, r.query))
    /\ UNCHANGED <<cfg, run, h, calls, extractions, cand, norm, sideVars>>

\* a valid request: the handler runs up to the first await of robustAsk
ReceiveAssess ==
    /\ pc = "idle"
    /\ \E r \in Requests :
          /\ AnswersValid(r.body)
          /\ r.query.mock # "1"
          /\ req' = r
          /\ LET r1 == StartRun(cfg, PreferredModel(cfg, r.query),
                                UserText(Get(r.body, K_answers).a))
             IN  /\ run' = [r1 EXCEPT !.awaiting = 1]
                 /\ calls' = StepCalls(1, r1)
    /\ pc' = "round1"
    /\ UNCHANGED <<cfg, h, extractions, resp, cand, norm, sideVars>>

\* a pending call throws: robustAsk records the error and goes on, or throws
\* the last error to the handler, whose catch answers 500
\* (a call that robustAsk is not awaiting only ends)
UpstreamFail ==
    /\ pc \in {"round1", "round2"}
    /\ \E i \in 1..Len(calls), e \in ErrorMessages :
          /\ calls[i].status = "pending"
          /\ IF i # run.awaiting
             THEN /\ calls' = Settled(i, "failed", <<>>)
                  /\ UNCHANGED <<run, pc, resp>>
             ELSE LET na == NextAttempt(run)
                      r2 == [run EXCEPT !.lastError = e, !.idx = na.idx, !.strict = na.strict]
                  IN  IF na.exhausted
                      THEN /\ calls' = Settled(i, "failed", <<>>)
                           /\ run' = [run EXCEPT !.lastError = e, !.awaiting = 0]
                           /\ Respond(500, CatchBody(e))
                      ELSE /\ calls' = Settled(i, "failed", <<>>) \o StepCalls(Round, r2)
                           /\ run' = [r2 EXCEPT !.awaiting = Len(calls) + 1]
                           /\ UNCHANGED <<pc, resp>>
    /\ UNCHANGED <<cfg, req, h, extractions, cand, norm, sideVars>>

\* a pending call returns its text: robustAsk returns it to the handler, which
\* extracts, normalizes and answers, or starts the retry run
\* (a call that robustAsk is not awaiting only ends)
UpstreamReturn ==
    /\ pc \in {"round1", "round2"}
    /\ \E i \in 1..Len(calls), raw \in RawSamples :
          /\ calls[i].status = "pending"
          /\ IF i # run.awaiting
             THEN /\ calls' = Settled(i, "ok", raw)
                  /\ UNCHANGED <<run, pc, resp, h, extractions>>
             ELSE LET d  == Decide(Round, Debug(cfg, req.query), raw)
                      ex == extractJson(raw)
                      logged == IF d = "debug" THEN extractions
                                ELSE Append(extractions,
                                            [call |-> i, ok |-> ex.ok, v |-> ex.v,
                                             calls |-> Len(calls)])
                  IN  /\ extractions' = logged
                      /\ CASE d = "success" ->
                                /\ calls' = Settled(i, "ok", raw)
                                /\ h' = IF Round = 1
                                        THEN [raw |-> raw, usedModel |-> calls[i].model]
                                        ELSE h
                                /\ run' = [run EXCEPT !.awaiting = 0]
                                /\ Respond(200, SuccessBody(normalizeResult(ex.v),
                                                IF Round = 1 THEN calls[i].model
                                                ELSE h.usedModel))
                           [] d = "retry" ->
                                LET r2 == StartRun(cfg, PreferredModel(cfg, req.query),
                                              RetryUserText(UserText(Get(req.body, K_answers).a)))
                                IN  /\ calls' = Settled(i, "ok", raw) \o StepCalls(2, r2)
                                    /\ h' = [raw |-> raw, usedModel |-> calls[i].model]
                                    /\ run' = [r2 EXCEPT !.awaiting = Len(calls) + 1]
                                    /\ pc' = "round2"
                                    /\ UNCHANGED resp
                           [] d = "debug" ->
                                /\ calls' = Settled(i, "ok", raw)
                                /\ run' = [run EXCEPT !.awaiting = 0]
                                /\ Respond(500, DebugBody(h.raw, raw, calls[i].model))
                                /\ UNCHANGED h
                           [] d = "throw" ->
                                /\ calls' = Settled(i, "ok", raw)
                                /\ run' = [run EXCEPT !.awaiting = 0]
                                /\ Respond(500, CatchBody(ex.msg))
                                /\ UNCHANGED h
    /\ UNCHANGED <<cfg, req, cand, norm, sideVars>>

Next ==
    \/ ReceiveMeta
    \/ ReceiveBadInput
    \/ ReceiveMock
    \/ ReceiveAssess
    \/ UpstreamFail
    \/ UpstreamReturn

Spec ==
    Init /\ [][Next]_vars

(* ------------------------------------------------------------------ *)
(* normalizeResult applied to every sampled candidate                  *)
(* ------------------------------------------------------------------ *)

InitNorm ==
    /\ cand \in Candidates
    /\ norm = NoNorm
    /\ norm2 = NoNorm
    /\ xj = NoExtract
    /\ rl = NoLimiter
    /\ wake = NoWake
    /\ parked = NoFrame
    /\ ui = NoClient
    /\ cfg = [fallbacks |-> <<>>, debugSecret |-> ""]
    /\ req = NoRequest
    /\ pc = "idle"
    /\ run = NoRun
    /\ h = NoLocals
    /\ calls = <<>>
    /\ extractions = <<>>
    /\ resp = NoResponse

Normalize ==
    /\ ~norm.done
    /\ norm' = [done |-> TRUE, r |-> normalizeResult(cand)]
    /\ UNCHANGED <<cand, norm2, xj, rl, wake, parked, ui, pipeVars>>

\* the object normalizeResult returned, handed to it again
AsCandidate(r) ==
    JObj((K_score :> (IF r.score.nan THEN JNaN ELSE JNum(r.score.v)))
         @@ (K_level :> JStr(r.level))
         @@ (K_reasons :> JStr(r.reasons))
         @@ (K_suggestions :> JArr([i \in 1..Len(r.suggestions) |-> JStr(r.suggestions[i])])))

Renormalize ==
    /\ norm.done
    /\ ~norm2.done
    /\ norm2' = [done |-> TRUE, r |-> normalizeResult(AsCandidate(norm.r))]
    /\ UNCHANGED <<cand, norm, xj, rl, wake, parked, ui, pipeVars>>

NextNorm ==
    \/ Normalize
    \/ Renormalize

SpecNorm ==
    InitNorm /\ [][NextNorm]_vars

(* ------------------------------------------------------------------ *)
(* Properties                                                          *)
(* ------------------------------------------------------------------ *)

IsStrict(c) ==
    c.responseFormat # NoValue

Pending ==
    {i \in 1..Len(calls) : calls[i].status = "pending"}

RoundCalls(r) ==
    {i \in 1..Len(calls) : calls[i].round = r}

\* the handler has answered a valid, non-mock request with 200
RealSuccess ==
    pc = "done" /\ resp.status = 200 /\ req.query.mock # "1"

\* the handler has answered 500
Failure ==
    pc = "done" /\ resp.status = 500

\* the score -> level table of the output contract
MappedLevel(n) ==
    CASE n = 100        -> L_NativeLike
      [] n = 90         -> L_NearNative
      [] n \in {70, 80} -> L_Advanced
      [] n \in {50, 60} -> L_Intermediate
      [] OTHER          -> L_Beginner

\* C1: every success response of the real pipeline carries a score that is an
\* integer in [0,10] and the level the fixed table assigns to that score.
C1_ScoreAndLevel ==
    RealSuccess =>
        /\ resp.body.score.k = "number"
        /\ resp.body.score.n \in {10 * i : i \in 0..10}
        /\ resp.body.level = MappedLevel(resp.body.score.n)

\* C2: normalizeResult returns an object whose score is an integer in [0,10],
\* whose level is one of the five level names, whose reasons is a non-empty
\* text and whose suggestions is a list of 1 to 6 non-empty texts.
C2_NormalizeContract ==
    norm.done =>
        /\ ~norm.r.score.nan
        /\ norm.r.score.v \in {10 * i : i \in 0..10}
        /\ norm.r.level \in Levels
        /\ norm.r.reasons # <<>>
        /\ Len(norm.r.suggestions) \in 1..MaxSuggestions
        /\ \A i \in 1..Len(norm.r.suggestions) : norm.r.suggestions[i] # <<>>

\* attempt (m, s) has been issued and has failed at the upstream or at extraction
AttemptFailed(m, s) ==
    \E i \in 1..Len(calls) :
        /\ calls[i].idx = m
        /\ IsStrict(calls[i]) = s
        /\ \/ calls[i].status = "failed"
           \/ \E j \in 1..Len(extractions) : extractions[j].call = i /\ ~extractions[j].ok

\* every attempt of the list has been issued in run r and has failed at the upstream
RunExhausted(r) ==
    \A m \in 1..Len(run.models), s \in BOOLEAN :
        \E i \in RoundCalls(r) :
            calls[i].idx = m /\ IsStrict(calls[i]) = s /\ calls[i].status = "failed"

ModelAt(m) ==
    IF m = 1 THEN PreferredModel(cfg, req.query) ELSE cfg.fallbacks[m - 1]

\* C5: in each run the calls are, in order, primary strict, primary relaxed,
\* then each fallback model strict and relaxed; every call but the first of a
\* run is issued after the call before it has failed.
C5_AttemptOrder ==
    \A i \in 1..Len(calls) :
        LET first == CHOOSE f \in RoundCalls(calls[i].round) :
                         \A g \in RoundCalls(calls[i].round) : f <= g
            p     == i - first
        IN  /\ calls[i].idx = (p \div 2) + 1
            /\ IsStrict(calls[i]) = (p % 2 = 0)
            /\ calls[i].model = ModelAt(calls[i].idx)
            /\ calls[i].maxTokens = (IF p % 2 = 0 THEN 700 ELSE 550)
            /\ p > 0 => calls[i - 1].status = "failed"

\* the relaxed attempt of the second fallback model has been issued
C5_Witness ==
    \E i \in 1..Len(calls) :
        calls[i].idx = 3 /\ ~IsStrict(calls[i]) /\ calls[i].model = "fallback-2"

\* C6: after a failed call the next attempt of the list has been issued, unless
\* the failed call was the last attempt; an upstream error is answered only
\* when every attempt of the run has failed, and it is the last error recorded.
C6_UpstreamErrorAdvances ==
    /\ \A i \in 1..Len(calls) :
          calls[i].status = "failed" =>
              /\ run.lastError \in ErrorMessages \/ calls[i].round < calls[Len(calls)].round
              /\ \/ /\ i < Len(calls)
                    /\ calls[i + 1].round = calls[i].round
                    /\ IF IsStrict(calls[i])
                       THEN calls[i + 1].idx = calls[i].idx /\ ~IsStrict(calls[i + 1])
                       ELSE calls[i + 1].idx = calls[i].idx + 1 /\ IsStrict(calls[i + 1])
                 \/ /\ i = Len(calls)
                    /\ calls[i].idx = Len(run.models)
                    /\ ~IsStrict(calls[i])
                    /\ Failure
                    /\ resp.body.error = run.lastError
    /\ (pc = "done" /\ resp.body.error \in ErrorMessages) =>
          /\ Failure
          /\ RunExhausted(calls[Len(calls)].round)

\* an upstream error has been answered after the six attempts of a run
C6_Witness ==
    /\ Failure
    /\ resp.body.error \in ErrorMessages
    /\ Len(run.models) = 3
    /\ Cardinality(RoundCalls(2)) = 6

\* C7: after an extraction failure every upstream call carries the shortened
\* prompt: the bare schema instruction and the four answers, without the
\* rubric text STRICT_JSON_INSTR.
C7_RetryPromptIsShort ==
    \A j \in 1..Len(extractions), i \in 1..Len(calls) :
        (~extractions[j].ok /\ i > extractions[j].call) =>
            /\ Piece("STRICT_JSON_INSTR") \notin Range(calls[i].user)
            /\ Piece("retryInstr") \in Range(calls[i].user)
            /\ \A a \in 1..4 : Answer(Get(req.body, K_answers).a[a].s) \in Range(calls[i].user)

\* C8: once extractJson has succeeded no further call is issued and the
\* response is 200 with normalizeResult of the extracted value.
C8_FirstSuccessEnds ==
    \A j \in 1..Len(extractions) :
        extractions[j].ok =>
            /\ j = Len(extractions)
            /\ Len(calls) = extractions[j].calls
            /\ Pending = {}
            /\ pc = "done"
            /\ resp.count = 1
            /\ resp.status = 200
            /\ LET n == normalizeResult(extractions[j].v)
               IN  /\ resp.body.fields = {"score", "level", "reasons", "suggestions", "_meta"}
                   /\ resp.body.score = (IF n.score.nan THEN JNull ELSE JNum(n.score.v))
                   /\ resp.body.level = n.level
                   /\ resp.body.reasons = n.reasons
                   /\ resp.body.suggestions = n.suggestions

\* the text of the retry run has been extracted, after upstream failures
C8_Witness ==
    /\ Len(extractions) = 2
    /\ extractions[2].ok
    /\ Len(calls) >= 4
    /\ resp.body.suggestions = FallbackSuggestions

C10_OneCallInFlight ==
    /\ Cardinality(Pending) <= 1
    /\ \A i \in Pending : i = Len(calls)

\* a call is pending after three earlier calls of the request have ended
C10_Witness ==
    /\ Len(calls) = 4
    /\ Pending = {4}
    /\ calls[2].status = "ok"

\* the answers the interface contract admits: exactly 4 text values, none
\* empty after trimming whitespace
FourNonBlankAnswers(body) ==
    /\ body.k = "object"
    /\ Get(body, K_answers).k = "array"
    /\ Len(Get(body, K_answers).a) = 4
    /\ \A i \in 1..4 :
          /\ Get(body, K_answers).a[i].k = "string"
          /\ trim(Get(body, K_answers).a[i].s) # <<>>

\* C11: a received /assess request whose answers are not exactly 4 text
\* values, or in which some answer is empty after trimming whitespace, is
\* answered 400 and no upstream call is issued for it.
C11_InvalidAnswersRejected ==
    (pc \notin {"idle", "meta"} /\ ~FourNonBlankAnswers(req.body))
        => (pc = "done" /\ resp.status = 400 /\ calls = <<>>)

(* ------------------------------------------------------------------ *)
(* The rate limiter mounted on /assess                                 *)
(*                                                                     *)
(* app.use("/assess", rateLimit({ windowMs: 60_000, max: 20 })) runs    *)
(* before the route handler.  The middleware counts the request under  *)
(* the client's key (store.increment, one step), awaits the total, and *)
(* then either answers 429 or calls next().  Several requests can be   *)
(* between the two steps at once; the store is the in-memory one (none *)
(* is configured), so the totals are delivered in the order of the     *)
(* requests.  The counters are cleared when the window has elapsed.    *)
(* ------------------------------------------------------------------ *)

\* requests of the first client in one window beyond RATE_MAX
ExtraHits ==
    2

\* requests of the second client in one window
LightHits ==
    2

\* the /assess requests client c sends in one window at most
MaxHits(c) ==
    IF c = "10.0.0.1" THEN RATE_MAX + ExtraHits ELSE LightHits

\* most requests between the counting and the decision of the limiter
MaxInFlight ==
    2

Paths ==
    {"/assess", "/meta"}

\* the pipeline of the /assess handler at rest
IdlePipe ==
    /\ cfg = [fallbacks |-> <<>>, debugSecret |-> ""]
    /\ req = NoRequest
    /\ pc = "idle"
    /\ run = NoRun
    /\ h = NoLocals
    /\ calls = <<>>
    /\ extractions = <<>>
    /\ resp = NoResponse
    /\ cand = JNull
    /\ norm = NoNorm
    /\ parked = NoFrame
    /\ ui = NoClient

RateLimited_Nowhere(path) ==
    FALSE

\* the mount path of the limiter
RateLimited(path) ==
    path = "/assess"

\* store.increment(key)
Increment(hits, c) ==
    [hits EXCEPT ![c] = @ + 1]

\* totalHits > max
OverLimit(n) ==
    n > RATE_MAX

InitRate ==
    /\ IdlePipe
    /\ norm2 = NoNorm
    /\ xj = NoExtract
    /\ rl = NoLimiter
    /\ wake = NoWake

\* a request in flight: k is its rank among the /assess requests of its
\* client in the window, n the total the limiter counted for it
InFlight(path, c, k, n) ==
    [path |-> path, c |-> c, k |-> k, n |-> n, old |-> FALSE]

\* A request arrives and, where the limiter is mounted, is counted.
RateArrive ==
    /\ Len(rl.pending) < MaxInFlight
    /\ \E c \in Clients, path \in Paths :
          LET k == IF path = "/assess" THEN rl.seen[c] + 1 ELSE 0
              n == IF RateLimited(path) THEN rl.hits[c] + 1 ELSE 0
          IN  /\ k <= MaxHits(c)
              /\ rl' = [rl EXCEPT
                           !.hits = IF RateLimited(path) THEN Increment(rl.hits, c) ELSE @,
                           !.seen[c] = IF path = "/assess" THEN k ELSE @,
                           !.pending = Append(@, InFlight(path, c, k, n))]
    /\ UNCHANGED <<ui, parked, pipeVars, cand, norm, norm2, xj, wake>>

\* The limiter decides on a counted request: 429, or next() and the route
\* handler runs.  Only the /assess handler issues upstream calls.
RateDecide ==
    /\ rl.pending # <<>>
    /\ LET p      == Head(rl.pending)
           rest   == Tail(rl.pending)
           refuse == RateLimited(p.path) /\ OverLimit(p.n)
           count  == ~refuse /\ p.path = "/assess"
           prev2  == IF count /\ p.old THEN [rl.prev EXCEPT ![p.c] = @ + 1] ELSE rl.prev
       IN  rl' = [rl EXCEPT
                     !.pending = rest,
                     !.passed[p.c] = IF count /\ ~p.old THEN @ + 1 ELSE @,
                     !.prev = IF \E i \in 1..Len(rest) : rest[i].old THEN prev2 ELSE NoHits,
                     !.last = [path |-> p.path, c |-> p.c, k |-> p.k,
                               status |-> IF refuse THEN 429 ELSE 200,
                               handled |-> ~refuse]]
    /\ UNCHANGED <<ui, parked, pipeVars, cand, norm, norm2, xj, wake>>

\* windowMs have elapsed: the store clears its counters
RateWindowElapses ==
    /\ rl.resetTime < (MaxWindows + 1) * RATE_WINDOW_MS
    /\ \A i \in 1..Len(rl.pending) : ~rl.pending[i].old
    /\ rl' = [rl EXCEPT
                 !.resetTime = @ + RATE_WINDOW_MS,
                 !.hits = NoHits,
                 !.seen = NoHits,
                 !.passed = NoHits,
                 !.prev = IF rl.pending = <<>> THEN NoHits ELSE rl.passed,
                 !.pending = [i \in 1..Len(rl.pending) |->
                                 [rl.pending[i] EXCEPT !.old = TRUE]]]
    /\ UNCHANGED <<ui, parked, pipeVars, cand, norm, norm2, xj, wake>>

NextRate ==
    \/ RateArrive
    \/ RateDecide
    \/ RateWindowElapses

SpecRate ==
    InitRate /\ [][NextRate]_vars

\* C12: of the /assess requests of one client in one 60-second window at
\* most 20 reach the route handler, also when several requests are between
\* the limiter's counting and its decision at once, and a request beyond
\* the 20th is answered 429 without the handler (and so no upstream call)
\* running.
C12_RateLimitHolds ==
    /\ \A c \in Clients : rl.passed[c] <= 20 /\ rl.prev[c] <= 20
    /\ (rl.last.path = "/assess" /\ rl.last.k > 20)
           => (rl.last.status = 429 /\ ~rl.last.handled)

\* a 21st request was refused while another request of the same client and
\* window was still between counting and decision
C12_Witness ==
    /\ rl.last.status = 429
    /\ rl.last.k = 21
    /\ rl.passed[rl.last.c] = 20
    /\ \E i \in 1..Len(rl.pending) :
          /\ rl.pending[i].c = rl.last.c
          /\ ~rl.pending[i].old
          /\ rl.pending[i].path = "/assess"

\* the handler has answered a valid request that asked for mock mode
MockAnswered ==
    pc = "done" /\ req.query.mock = "1" /\ AnswersValid(req.body)

\* the mock object as returned to a request without model override
MockObject ==
    [NoBody EXCEPT !.fields = {"score", "level", "reasons", "suggestions", "_meta"},
                   !.score = JNum(80), !.level = L_Advanced, !.reasons = MOCK_REASONS,
                   !.suggestions = <<MOCK_S1, MOCK_S2, MOCK_S3>>,
                   !.model = "default-model"]

\* C13 (as stated): a valid request in mock mode causes no upstream call and
\* the object returned is one and the same whatever the model configuration
\* and whatever model override is in force.
C13_MockObjectIdentical ==
    MockAnswered => (calls = <<>> /\ resp.status = 200 /\ resp.body = MockObject)

\* C13 (amended): a valid request in mock mode causes no upstream call and
\* is answered 200 once with score 8, level Advanced and the fixed reasons
\* and suggestions, whatever the configuration; _meta.model of the object is
\* the model override when one is in force and the default model otherwise.
C13_MockFieldsFixed ==
    MockAnswered =>
        /\ calls = <<>>
        /\ resp.count = 1
        /\ resp.status = 200
        /\ resp.body.fields = {"score", "level", "reasons", "suggestions", "_meta"}
        /\ resp.body.score = JNum(80)
        /\ resp.body.level = L_Advanced
        /\ resp.body.reasons = MOCK_REASONS
        /\ resp.body.suggestions = <<MOCK_S1, MOCK_S2, MOCK_S3>>
        /\ resp.body.model =
              IF /\ req.query.model \notin {NoValue, ""}
                 /\ req.query.secret # NoValue
                 /\ req.query.secret = cfg.debugSecret
              THEN req.query.model
              ELSE "default-model"

\* a mock request answered while a model override was in force and fallback
\* models were configured
C13_Witness ==
    /\ MockAnswered
    /\ resp.body.model = "override-model"
    /\ cfg.fallbacks # <<>>

(* ------------------------------------------------------------------ *)
(* Properties of normalizeResult                                       *)
(* ------------------------------------------------------------------ *)

\* C14: normalizeResult applied to its own result returns that result again,
\* field by field (a NaN score compared as deep equality compares it, equal
\* to itself), also when the first pass put in the placeholder reasons or
\* the fallback suggestions.
C14_NormalizeIdempotent ==
    norm2.done => norm2.r = norm.r

\* the second pass has run on a result that carries the placeholder reasons
\* and the fallback suggestions
C14_Witness ==
    /\ norm2.done
    /\ norm.r.reasons = PLACEHOLDER_REASONS
    /\ norm.r.suggestions = <<FALLBACK_1, FALLBACK_2, FALLBACK_3, FALLBACK_4>>
    /\ norm2.r.suggestions = <<FALLBACK_1, FALLBACK_2, FALLBACK_3, FALLBACK_4>>

\* the object normalizeResult reads its fields from
CandidateObject ==
    IF cand.k = "array"
    THEN (IF Len(cand.a) >= 1 THEN cand.a[1] ELSE Undefined)
    ELSE cand

\* C16: the score returned by normalizeResult is the candidate's score
\* coerced to a number, rounded to the nearest integer and clamped to
\* [0,10], and 0 when the score is missing or not numeric; -3 gives 0 and
\* Beginner, 14.6 gives 10 and Native-like.
C16_ScoreCoerced ==
    norm.done =>
        LET sc == Get(CandidateObject, K_score)
            x  == ToNumber(sc)
            r  == MathRound(x)
        IN  /\ norm.r.score =
                  IF sc.k \in {"undefined", "null"} \/ x.nan THEN Num(0)
                  ELSE IF r.v < 0 THEN Num(0)
                  ELSE IF r.v > 100 THEN Num(100)
                  ELSE r
            /\ sc = JNum(-30) => (norm.r.score = Num(0) /\ norm.r.level = L_Beginner)
            /\ sc = JNum(146) => (norm.r.score = Num(100) /\ norm.r.level = L_NativeLike)

\* runs of whitespace collapsed to one space
RECURSIVE CollapseWs(_)
CollapseWs(s) ==
    IF s = <<>> THEN <<>>
    ELSE IF Head(s) \in WhiteSpace THEN <<" ">> \o CollapseWs(TrimStart(Tail(s)))
    ELSE <<Head(s)>> \o CollapseWs(Tail(s))

\* two texts differ in letter case and whitespace only when these agree
WsKey(s) ==
    trim(CollapseWs(toLowerCase(s)))

\* the text entries of the candidate's suggestions, in input order
TextSuggestions ==
    LET sg == Get(CandidateObject, K_suggestions)
    IN  IF sg.k = "array"
        THEN SelectSeq([i \in 1..Len(sg.a) |->
                           IF sg.a[i].k = "string" THEN sg.a[i].s ELSE <<>>], NonEmpty)
        ELSE <<>>

\* neither below the length threshold nor denylisted
Eligible(s) ==
    Len(SuggestionKey(s)) >= 6 /\ ~IsGeneric(s)

\* C17 (as stated): when the candidate's suggestions contain two eligible
\* entries that differ only in letter case and whitespace, the suggestions
\* returned contain exactly one entry that differs from them only so, and it
\* is the first such entry of the input (trimmed).
C17_FirstOfPairReturned ==
    norm.done =>
        LET ts == TextSuggestions
        IN  \A i, j \in 1..Len(ts) :
               (/\ i < j
                /\ WsKey(ts[i]) = WsKey(ts[j])
                /\ Eligible(ts[i]) /\ Eligible(ts[j])
                /\ \A m \in 1..(i - 1) : WsKey(ts[m]) # WsKey(ts[i]))
               => /\ Cardinality({m \in 1..Len(norm.r.suggestions) :
                                     WsKey(norm.r.suggestions[m]) = WsKey(ts[i])}) = 1
                  /\ \E m \in 1..Len(norm.r.suggestions) :
                        norm.r.suggestions[m] = trim(ts[i])

\* the distinct keys of the eligible entries before position i
KeysBefore(ts, i) ==
    {SuggestionKey(ts[m]) : m \in {n \in 1..(i - 1) : Eligible(ts[n])}}

\* C17 (amended): of the eligible entries of the candidate's suggestions
\* that share one key (lower-cased, every run of non-word characters turned
\* into one space, trimmed), as two entries that differ only in letter case
\* and whitespace do, the suggestions returned contain the first in input
\* order, trimmed, and no other, provided fewer than 6 distinct eligible
\* keys come before it; otherwise they contain none of them.
C17_FirstOfKeyReturned ==
    norm.done =>
        LET ts == TextSuggestions
        IN  \A i, j \in 1..Len(ts) :
               (/\ i < j
                /\ SuggestionKey(ts[i]) = SuggestionKey(ts[j])
                /\ Eligible(ts[i]) /\ Eligible(ts[j])
                /\ SuggestionKey(ts[i]) \notin KeysBefore(ts, i))
               => LET same == {m \in 1..Len(norm.r.suggestions) :
                                  SuggestionKey(norm.r.suggestions[m]) = SuggestionKey(ts[i])}
                  IN  IF Cardinality(KeysBefore(ts, i)) < 6
                      THEN /\ Cardinality(same) = 1
                           /\ \A m \in same : norm.r.suggestions[m] = trim(ts[i])
                      ELSE same = {}

\* five suggestions come first, then two entries that differ only in case
\* and whitespace: the first of the two is returned as the sixth suggestion
C17_Witness ==
    /\ norm.done
    /\ Len(TextSuggestions) = 7
    /\ TextSuggestions[6] = S_Linking
    /\ TextSuggestions[7] = V_Linking
    /\ Len(norm.r.suggestions) = 6
    /\ norm.r.suggestions[6] = S_Linking

(* ------------------------------------------------------------------ *)
(* extractJson applied to a JSON object wrapped in prose and fences    *)
(* ------------------------------------------------------------------ *)

\* JSON.stringify(v) as a completion text
RECURSIVE Stringify(_)
RECURSIVE StringifyMembers(_, _)
RECURSIVE StringifyElements(_, _)
Stringify(v) ==
    CASE v.k = "string"  -> <<TStr(v.s)>>
      [] v.k = "number"  -> <<TNum(v.n)>>
      [] v.k = "boolean" -> <<Tok(IF v.b THEN "true" ELSE "false")>>
      [] v.k = "array"   -> <<Tok("[")>> \o StringifyElements(v.a, 1) \o <<Tok("]")>>
      [] v.k = "object"  -> <<Lb>> \o StringifyMembers(v.o, DOMAIN v.o) \o <<Rb>>
      [] OTHER           -> <<Tok("null")>>

StringifyMembers(o, keys) ==
    IF keys = {} THEN <<>>
    ELSE LET key == CHOOSE x \in keys : TRUE
         IN  <<TStr(key), Colon>> \o Stringify(o[key])
             \o (IF keys = {key} THEN <<>> ELSE <<Comma>>)
             \o StringifyMembers(o, keys \ {key})

StringifyElements(a, i) ==
    IF i > Len(a) THEN <<>>
    ELSE Stringify(a[i]) \o (IF i = Len(a) THEN <<>> ELSE <<Comma>>)
         \o StringifyElements(a, i + 1)

\* a text with braces in it: } {
S_Braces ==
    <<"}", " ", "{">>

\* the objects J that get wrapped
ExtractObjects ==
    ObjectFew
    \cup {JObj(NoFields),
          MkObj(JNum(70), Undefined, JStr(S_Braces), JArr(<<JStr(S_Braces)>>)),
          MkObj(JNull, JBool(TRUE), JObj(K_score :> JArr(<<JObj(NoFields)>>)), Undefined)}

\* prose before J: none, plain, with braces in it, with a code block in it,
\* with a code block in it that has nothing but a line break inside
ProseBefore ==
    {<<>>,
     <<TWord(W_Here), Sp>>,
     <<TWord(W_Here), Sp, Lb, TWord(W_json), Rb, Nl>>,
     <<Tok("fence"), TWord(W_Sorry), Tok("fence"), Nl>>,
     <<Tok("fence"), Nl, Tok("fence"), Nl>>}

\* prose after J: none, plain, with a brace in it, with a code block in it
\* that holds an empty object
ProseAfter ==
    {<<>>,
     <<Nl, TWord(W_Sorry)>>,
     <<Sp, Rb, TWord(W_Sorry)>>,
     <<Nl, Tok("fence"), TWord(W_json), Nl, Lb, Rb, Nl, Tok("fence")>>}

Wrappers ==
    {[pre |-> a, fenced |-> FALSE, tag |-> FALSE, pad |-> <<>>, post |-> b] :
        a \in ProseBefore, b \in ProseAfter}
    \cup {[pre |-> a, fenced |-> TRUE, tag |-> t, pad |-> p, post |-> b] :
        a \in ProseBefore, b \in ProseAfter, t \in BOOLEAN, p \in {<<>>, <<Nl>>}}

\* J surrounded as w says: prose, ``` (json) J ```, prose
Wrap(j, w) ==
    w.pre
    \o (IF w.fenced
        THEN <<Tok("fence")>> \o (IF w.tag THEN <<TWord(W_json)>> ELSE <<>>) \o w.pad
        ELSE <<>>)
    \o Stringify(j)
    \o (IF w.fenced THEN w.pad \o <<Tok("fence")>> ELSE <<>>)
    \o w.post

InitExtract ==
    /\ IdlePipe
    /\ norm2 = NoNorm
    /\ xj \in {[NoExtract EXCEPT !.j = j, !.w = w] : j \in ExtractObjects, w \in Wrappers}
    /\ rl = NoLimiter
    /\ wake = NoWake

Extract ==
    /\ ~xj.done
    /\ xj' = [xj EXCEPT !.done = TRUE, !.out = extractJson(Wrap(xj.j, xj.w))]
    /\ UNCHANGED <<ui, parked, pipeVars, cand, norm, norm2, rl, wake>>

NextExtract ==
    Extract

SpecExtract ==
    InitExtract /\ [][NextExtract]_vars

\* C15 (as stated): for every well-formed JSON object J and every text that
\* surrounds J with prose and/or wraps it in a triple-backtick block,
\* extractJson returns a value deep-equal to J.
C15_RoundTrip ==
    xj.done => (xj.out.ok /\ xj.out.v = xj.j)

HasTok(ts, kinds) ==
    \E i \in 1..Len(ts) : ts[i].t \in kinds

\* the surroundings the amended statement covers (no sampled J has a triple
\* backtick in its text)
CleanWrapper(w) ==
    IF w.fenced
    THEN ~HasTok(w.pre, {"fence"})
    ELSE ~HasTok(w.pre \o w.post, {"fence", "{", "}"})

\* C15 (amended): extractJson returns a value deep-equal to J for a text
\* that wraps J in a triple-backtick block with no triple backtick in the
\* prose before the block, and for a text that surrounds the bare J with
\* prose that has no brace and no triple backtick in it.
C15_RoundTripClean ==
    (xj.done /\ CleanWrapper(xj.w)) => (xj.out.ok /\ xj.out.v = xj.j)

\* J, with a nested object and braces inside a string, was recovered from a
\* tagged block that has prose with braces before it and prose after it
C15_Witness ==
    /\ xj.done
    /\ xj.w.fenced /\ xj.w.tag
    /\ HasTok(xj.w.pre, {"{"})
    /\ xj.w.post # <<>>
    /\ xj.out.ok
    /\ xj.out.v = xj.j
    /\ xj.j.k = "object"
    /\ \E key \in DOMAIN xj.j.o : xj.j.o[key] = JStr(S_Braces)

(* ------------------------------------------------------------------ *)
(* wakeServer of the web client                                        *)
(*                                                                     *)
(* wake.pc is where the call stands: "idle" (not called), "head" and   *)
(* "get" (awaiting that probe), "wait" (awaiting the backoff timer),   *)
(* "returned" or "thrown".  wake.probes lists the probes sent, each    *)
(* with its attempt, method, url and outcome; wake.waits lists the     *)
(* durations of the backoff timers set; wake.errors the errors thrown  *)
(* to the caller.  fetchWithTimeout aborts a probe after timeoutMs, so *)
(* every probe either returns a status or throws.                      *)
(* ------------------------------------------------------------------ *)

\* Math.min(backoff * 2, 7000)
BACKOFF_CAP ==
    7000

\* largest maxAttempts a call is given (the prewarm call passes 3)
MaxAttemptsBound ==
    3

\* startBackoffMs: 300 at prewarm, 500 by default, and larger ones
StartBackoffs ==
    {300, 500, 4000, 8000}

HealthUrls ==
    {"https://api.example/health"}

\* the statuses a probe can return
Statuses ==
    {200, 399, 400, 503}

\* what makes fetch throw: the abort of fetchWithTimeout, a network failure
ThrowCauses ==
    {"AbortError", "TypeError"}

IsAwake_From200(status) ==
    status >= 200

\* r.ok || (r.status >= 200 && r.status < 400)
IsAwake(status) ==
    (status >= 200 /\ status <= 299) \/ (status >= 200 /\ status < 400)

AfterHead_SkipGet(status) ==
    IF IsAwake(status) THEN "returned" ELSE "wait"

\* where wakeServer goes when HEAD has returned status
AfterHead(status) ==
    IF IsAwake(status) THEN "returned" ELSE "get"

\* where wakeServer goes when GET has returned status
AfterGet(status) ==
    IF IsAwake(status) THEN "returned" ELSE "wait"

NextBackoff_NoCap(backoff) ==
    backoff * 2

\* backoff = Math.min(backoff * 2, 7000)
NextBackoff(backoff) ==
    IF backoff * 2 <= BACKOFF_CAP THEN backoff * 2 ELSE BACKOFF_CAP

\* fetchWithTimeout(healthUrl, { method, mode: "cors" }, timeoutMs), pending
Probe(w, method) ==
    [attempt |-> w.attempt, method |-> method, url |-> w.url, state |-> "pending",
     status |-> 0, cause |-> ""]

\* the last probe has returned status / has thrown
Returned(w, status) ==
    [w EXCEPT !.probes[Len(w.probes)].state = "status",
              !.probes[Len(w.probes)].status = status]

Threw(w, cause) ==
    [w EXCEPT !.probes[Len(w.probes)].state = "threw",
              !.probes[Len(w.probes)].cause = cause]

\* the head of the for loop: the next attempt's HEAD, or the throw after it
LoopTop(w) ==
    IF w.attempt <= w.maxAttempts
    THEN [w EXCEPT !.pc = "head", !.probes = Append(@, Probe(w, "HEAD"))]
    ELSE [w EXCEPT !.pc = "thrown",
                   !.errors = Append(@, "Server did not wake in time")]

StartWait_AfterDoubling(w) ==
    [w EXCEPT !.pc = "wait", !.waits = Append(@, NextBackoff(w.backoff))]

\* await new Promise(res => setTimeout(res, backoff))
StartWait(w) ==
    [w EXCEPT !.pc = "wait", !.waits = Append(@, w.backoff)]

\* the step after a probe has returned: return, send GET, or wait
Proceed(w, to) ==
    CASE to = "returned" -> [w EXCEPT !.pc = "returned"]
      [] to = "get"      -> [w EXCEPT !.pc = "get", !.probes = Append(@, Probe(w, "GET"))]
      [] to = "wait"     -> StartWait(w)

InitWake ==
    /\ IdlePipe
    /\ norm2 = NoNorm
    /\ xj = NoExtract
    /\ rl = NoLimiter
    /\ wake = NoWake

\* wakeServer({ healthUrl, maxAttempts, startBackoffMs, timeoutMs }) runs up
\* to its first await
WakeCall ==
    /\ wake.pc = "idle"
    /\ \E u \in HealthUrls, n \in 0..MaxAttemptsBound, b \in StartBackoffs :
          wake' = LoopTop([wake EXCEPT !.url = u, !.maxAttempts = n, !.start = b,
                                       !.backoff = b, !.attempt = 1])
    /\ UNCHANGED <<ui, parked, pipeVars, cand, norm, norm2, xj, rl>>

HeadReturns ==
    /\ wake.pc = "head"
    /\ \E st \in Statuses : wake' = Proceed(Returned(wake, st), AfterHead(st))
    /\ UNCHANGED <<ui, parked, pipeVars, cand, norm, norm2, xj, rl>>

GetReturns ==
    /\ wake.pc = "get"
    /\ \E st \in Statuses : wake' = Proceed(Returned(wake, st), AfterGet(st))
    /\ UNCHANGED <<ui, parked, pipeVars, cand, norm, norm2, xj, rl>>

\* ProbeThrows that lets the error leave wakeServer
ProbeThrows_Aborts ==
    /\ wake.pc \in {"head", "get"}
    /\ \E cause \in ThrowCauses :
          wake' = [Threw(wake, cause) EXCEPT !.pc = "thrown", !.errors = Append(@, cause)]
    /\ UNCHANGED <<ui, parked, pipeVars, cand, norm, norm2, xj, rl>>

\* the pending probe throws (timeout or network failure): catch {} and wait
ProbeThrows ==
    /\ wake.pc \in {"head", "get"}
    /\ \E cause \in ThrowCauses : wake' = StartWait(Threw(wake, cause))
    /\ UNCHANGED <<ui, parked, pipeVars, cand, norm, norm2, xj, rl>>

\* the backoff timer fires: backoff doubles, attempt++, loop condition
BackoffElapses ==
    /\ wake.pc = "wait"
    /\ wake' = LoopTop([wake EXCEPT !.backoff = NextBackoff(wake.backoff),
                                    !.attempt = @ + 1])
    /\ UNCHANGED <<ui, parked, pipeVars, cand, norm, norm2, xj, rl>>

NextWake ==
    \/ WakeCall
    \/ HeadReturns
    \/ GetReturns
    \/ ProbeThrows
    \/ BackoffElapses

SpecWake ==
    InitWake /\ [][NextWake]_vars

\* every probe returns or times out, and every timer fires
SpecWakeLive ==
    SpecWake /\ WF_vars(NextWake)

\* probe i has received a status in 200..399
ProbeWoke(i) ==
    /\ wake.probes[i].state = "status"
    /\ wake.probes[i].status >= 200
    /\ wake.probes[i].status <= 399

\* the attempts in which a probe was sent
AttemptsMade ==
    {wake.probes[i].attempt : i \in 1..Len(wake.probes)}

WakeOutcome ==
    /\ (wake.pc = "returned") <=> (\E i \in 1..Len(wake.probes) : ProbeWoke(i))
    /\ \A i \in 1..Len(wake.probes) :
          /\ wake.probes[i].attempt \in 1..wake.maxAttempts
          /\ ProbeWoke(i) => i = Len(wake.probes)
    /\ (wake.pc = "thrown") <=> (wake.errors # <<>>)
    /\ wake.pc = "thrown" =>
          /\ wake.errors = <<"Server did not wake in time">>
          /\ AttemptsMade = 1..wake.maxAttempts
          /\ Len(wake.waits) = wake.maxAttempts
          /\ \A i \in 1..Len(wake.probes) : wake.probes[i].state # "pending"

WakeFinished ==
    wake.pc \in {"returned", "thrown"}

\* C18: wakeServer returns exactly when a probe of one of its first
\* maxAttempts attempts has received a status in 200..399, and that probe is
\* the last one it sends; otherwise it throws "Server did not wake in time"
\* once, after exactly maxAttempts attempts; and every call, its probes
\* returning or timing out, ends in one of the two ways.
C18_WakeOutcome ==
    [](WakeOutcome) /\ ((wake.pc # "idle") ~> WakeFinished)

\* a call that returned on the GET of its last attempt
C18_Witness ==
    /\ wake.pc = "returned"
    /\ wake.maxAttempts = 3
    /\ Len(wake.probes) >= 4
    /\ wake.probes[Len(wake.probes)].attempt = 3
    /\ wake.probes[Len(wake.probes)].method = "GET"
    /\ wake.probes[Len(wake.probes)].status = 399

\* probe i is the first probe of its attempt
FirstOfAttempt(i) ==
    i = 1 \/ wake.probes[i - 1].attempt # wake.probes[i].attempt

\* probe i is followed by a GET of the same attempt to the same URL
GetFollows(i) ==
    /\ i < Len(wake.probes)
    /\ wake.probes[i + 1].method = "GET"
    /\ wake.probes[i + 1].attempt = wake.probes[i].attempt
    /\ wake.probes[i + 1].url = wake.probes[i].url

\* the waits started before probe i was sent are those of earlier attempts
BeforeWait(i) ==
    wake.probes[i].state = "pending" => Len(wake.waits) = wake.probes[i].attempt - 1

\* C19 (as stated): in every attempt HEAD is sent first, and whenever HEAD
\* has not returned a 2xx-3xx status (another status, a timeout, an error)
\* GET is sent to the same URL in the same attempt before any backoff wait.
C19_GetWheneverHeadFails ==
    \A i \in 1..Len(wake.probes) :
       /\ FirstOfAttempt(i) <=> wake.probes[i].method = "HEAD"
       /\ BeforeWait(i)
       /\ (/\ wake.probes[i].method = "HEAD"
           /\ wake.probes[i].state # "pending"
           /\ ~ProbeWoke(i)) => GetFollows(i)

\* C19 (amended): in every attempt HEAD is sent first; when HEAD returns a
\* status outside 200..399, GET is sent to the same URL in the same attempt
\* before any backoff wait; when HEAD throws or times out, or returns a
\* status in 200..399, no GET is sent in that attempt.
C19_GetAfterHeadStatus ==
    \A i \in 1..Len(wake.probes) :
       /\ FirstOfAttempt(i) <=> wake.probes[i].method = "HEAD"
       /\ BeforeWait(i)
       /\ (wake.probes[i].method = "HEAD" /\ wake.probes[i].state # "pending")
             => (GetFollows(i) <=> (wake.probes[i].state = "status" /\ ~ProbeWoke(i)))

\* HEAD returned 503 and GET followed in the first attempt; HEAD timed out
\* in the second and the third attempt began with HEAD
C19_Witness ==
    /\ Len(wake.probes) = 4
    /\ wake.probes[1].method = "HEAD" /\ wake.probes[1].status = 503
    /\ wake.probes[2].method = "GET" /\ wake.probes[2].attempt = 1
    /\ wake.probes[3].method = "HEAD" /\ wake.probes[3].cause = "AbortError"
    /\ wake.probes[4].method = "HEAD" /\ wake.probes[4].attempt = 3

RECURSIVE Pow2(_)
Pow2(n) ==
    IF n = 0 THEN 1 ELSE 2 * Pow2(n - 1)

Smaller(a, b) ==
    IF a <= b THEN a ELSE b

\* C20 (as stated): the wait after the k-th failed attempt is
\* min(startBackoffMs * 2^(k-1), 7000) and no wait exceeds 7000 ms, for
\* every starting backoff.
C20_WaitsDoubleUnderCap ==
    \A k \in 1..Len(wake.waits) :
       /\ wake.waits[k] = Smaller(wake.start * Pow2(k - 1), 7000)
       /\ wake.waits[k] <= 7000

\* C20 (amended): the wait after the first failed attempt is startBackoffMs
\* itself, and the wait after the k-th failed attempt, k >= 2, is
\* min(startBackoffMs * 2^(k-1), 7000); so the waits double up to the cap of
\* 7000 ms, and only a starting backoff above 7000 ms gives a (first) wait
\* above it.
C20_WaitsDoubleAfterFirst ==
    /\ Len(wake.waits) = Cardinality({a \in AttemptsMade :
                            a < wake.attempt \/ wake.pc = "wait"})
    /\ \A k \in 1..Len(wake.waits) :
          /\ wake.waits[k] = IF k = 1 THEN wake.start
                             ELSE Smaller(wake.start * Pow2(k - 1), 7000)
          /\ wake.start <= 7000 => wake.waits[k] <= 7000

\* three failed attempts from 4000 ms: the waits are 4000, 7000, 7000
C20_Witness ==
    /\ wake.start = 4000
    /\ wake.waits = <<4000, 7000, 7000>>

RECURSIVE SumSeq(_)
SumSeq(q) ==
    IF q = <<>> THEN 0 ELSE Head(q) + SumSeq(Tail(q))

\* probe i was answered with a status that is not 2xx
AnsweredNon2xx(i) ==
    /\ wake.probes[i].state = "status"
    /\ (wake.probes[i].status < 200 \/ wake.probes[i].status > 299)

\* C21 (as stated): when the target answers non-2xx to the first 2 probes
\* it receives and 2xx to the 3rd, wakeServer succeeds on its 3rd attempt
\* and the time it spent waiting is startBackoffMs + 2 * startBackoffMs.
C21_ThirdProbeWakes ==
    (/\ Len(wake.probes) >= 3
     /\ AnsweredNon2xx(1) /\ AnsweredNon2xx(2)
     /\ wake.probes[3].state = "status"
     /\ wake.probes[3].status \in 200..299)
        => /\ wake.pc = "returned"
           /\ wake.probes[3].attempt = 3
           /\ SumSeq(wake.waits) = wake.start + 2 * wake.start

\* the probes of attempt a, all settled without a status in 200..399
AttemptFailedToWake(a) ==
    /\ \E i \in 1..Len(wake.probes) : wake.probes[i].attempt = a
    /\ \A i \in 1..Len(wake.probes) :
          wake.probes[i].attempt = a
             => (wake.probes[i].state # "pending" /\ ~ProbeWoke(i))

\* C21 (amended): when no probe of the first 2 attempts (HEAD, and GET
\* where HEAD was answered) gets a status in 200..399 and a probe of the 3rd
\* attempt gets one, wakeServer succeeds on its 3rd attempt, it has waited
\* twice, and the time it spent waiting is
\* startBackoffMs + min(2 * startBackoffMs, 7000).
C21_ThirdAttemptWakes ==
    (/\ AttemptFailedToWake(1) /\ AttemptFailedToWake(2)
     /\ \E i \in 1..Len(wake.probes) : wake.probes[i].attempt = 3 /\ ProbeWoke(i))
        => /\ wake.pc = "returned"
           /\ wake.probes[Len(wake.probes)].attempt = 3
           /\ Len(wake.waits) = 2
           /\ SumSeq(wake.waits) = wake.start + Smaller(2 * wake.start, 7000)

\* both probes of attempts 1 and 2 were answered 503 and the HEAD of
\* attempt 3 was answered 200: five probes, 500 + 1000 ms waited
C21_Witness ==
    /\ wake.pc = "returned"
    /\ wake.start = 500
    /\ Len(wake.probes) = 5
    /\ \A i \in 1..4 : wake.probes[i].status = 503
    /\ wake.probes[5].attempt = 3 /\ wake.probes[5].status = 200
    /\ wake.waits = <<500, 1000>>

\* the models the configuration names
ConfiguredModels ==
    {DEFAULT_MODEL} \cup Range(cfg.fallbacks)

\* C22: a request that carries no secret or an empty secret gets no model
\* override (on /assess, in mock mode and on /meta) and no raw texts,
\* whatever the configuration, also when no DEBUG_SECRET is configured.
C22_NoSecretNoCapability ==
    (pc # "idle" /\ req.query.secret \in {NoValue, ""})
        => /\ \A i \in 1..Len(calls) : calls[i].model \in ConfiguredModels
           /\ resp.body.fields \cap {"raw1", "raw2"} = {}
           /\ resp.body.model \in ConfiguredModels \cup {NoValue}

(* ------------------------------------------------------------------ *)
(* Two /assess requests interleaved                                    *)
(*                                                                     *)
(* A handler runs from one await to the next without interruption, so  *)
(* the actions of the pipeline are the steps that interleave.  What a  *)
(* handler keeps between its steps are the bindings of its own call:   *)
(* req, res, debug, modelOverride, raw, usedModel and the locals of    *)
(* robustAsk.  The module-level bindings (the configuration, the       *)
(* client) are never assigned after start-up.  Switch hands the        *)
(* processor to the other request: its locals come back, those of the  *)
(* request that ran are put aside.                                     *)
(* ------------------------------------------------------------------ *)

\* the locals of the request that is running
Park ==
    [req |-> req, pc |-> pc, run |-> run, h |-> h, calls |-> calls,
     extractions |-> extractions, resp |-> resp]

HandlerLocals_SharedUsedModel(mine, theirs) ==
    [mine EXCEPT !.h = theirs.h]

\* what a request finds when it resumes: its own locals (mine), nothing of
\* the request that ran in between (theirs)
HandlerLocals(mine, theirs) ==
    mine

\* the requests and completions of the interleaved runs
TwoRequests ==
    {[body |-> Body(GoodAnswers), query |-> PlainQuery],
     [body |-> Body(GoodAnswers), query |-> Query(NoValue, "1", "s3cret", NoValue)],
     [body |-> Body(GoodAnswers), query |-> Query("1", NoValue, NoValue, NoValue)],
     [body |-> Body(SubSeq(GoodAnswers, 1, 3)), query |-> PlainQuery],
     [body |-> JNull, query |-> PlainQuery]}

TwoRaws ==
    {<<>>, R_Object, R_Prose}

TwoGuard ==
    /\ req \in TwoRequests \cup {NoRequest}
    /\ \A i \in 1..Len(calls) : calls[i].text \in TwoRaws
    /\ run.lastError \in {NoValue, "Request timed out."}

InitTwo ==
    /\ cfg = [fallbacks |-> <<"fallback-1">>, debugSecret |-> "s3cret"]
    /\ req = NoRequest
    /\ pc = "idle"
    /\ run = NoRun
    /\ h = NoLocals
    /\ calls = <<>>
    /\ extractions = <<>>
    /\ resp = NoResponse
    /\ cand = JNull
    /\ norm = NoNorm
    /\ norm2 = NoNorm
    /\ xj = NoExtract
    /\ rl = NoLimiter
    /\ wake = NoWake
    /\ parked = NoFrame
    /\ ui = NoClient

\* the running request is at an await (or has not begun, or is done) and
\* the other request's continuation runs next
Switch ==
    /\ parked # Park
    /\ LET f == HandlerLocals(parked, Park)
       IN  /\ req' = f.req
           /\ pc' = f.pc
           /\ run' = f.run
           /\ h' = f.h
           /\ calls' = f.calls
           /\ extractions' = f.extractions
           /\ resp' = f.resp
    /\ parked' = Park
    /\ UNCHANGED <<cfg, cand, norm, norm2, xj, rl, wake, ui>>

NextTwo ==
    \/ ReceiveMeta /\ TwoGuard'
    \/ ReceiveBadInput /\ TwoGuard'
    \/ ReceiveMock /\ TwoGuard'
    \/ ReceiveAssess /\ TwoGuard'
    \/ UpstreamFail /\ TwoGuard'
    \/ UpstreamReturn /\ TwoGuard'
    \/ Switch

SpecTwo ==
    InitTwo /\ [][NextTwo]_vars

\* what the upstream answered to the calls of a request: per call whether
\* it returned or threw and the text, and the last error thrown
Outcomes(f) ==
    <<[i \in 1..Len(f.calls) |-> [status |-> f.calls[i].status, text |-> f.calls[i].text]],
      f.run.lastError>>

Answered(f) ==
    f.pc \in {"done", "meta"}

\* the call of the first run that returned a text
FirstReturned(f) ==
    f.calls[CHOOSE i \in 1..Len(f.calls) :
                f.calls[i].round = 1 /\ f.calls[i].status = "ok"]

\* the response of a request that called the upstream, from its own
\* request, the configuration and the outcomes of its own calls
OwnResponse(f) ==
    LET last == f.calls[Len(f.calls)]
        ex   == extractJson(last.text)
    IN  IF last.status = "failed"
        THEN [count |-> 1, status |-> 500, body |-> CatchBody(f.run.lastError)]
        ELSE IF last.round = 1
        THEN [count |-> 1, status |-> 200,
              body |-> SuccessBody(normalizeResult(ex.v), last.model)]
        ELSE IF Debug(cfg, f.req.query)
        THEN [count |-> 1, status |-> 500,
              body |-> DebugBody(FirstReturned(f).text, last.text, last.model)]
        ELSE IF ex.ok
        THEN [count |-> 1, status |-> 200,
              body |-> SuccessBody(normalizeResult(ex.v), FirstReturned(f).model)]
        ELSE [count |-> 1, status |-> 500, body |-> CatchBody(ex.msg)]

\* C23: the response to a request is a function of its answers and query
\* parameters, the configuration and the upstream responses to its own
\* calls: each of two interleaved requests is answered once, with the
\* response that follows from its own request and the outcomes of its own
\* calls, and two requests that are alike in these get the same response,
\* whatever the other one did in between.
C23_ResponseIsFunctionOfOwnInputs ==
    /\ \A f \in {Park, parked} :
          (f.pc = "done" /\ f.calls # <<>>) => f.resp = OwnResponse(f)
    /\ (/\ Answered(Park) /\ Answered(parked)
        /\ req = parked.req
        /\ Outcomes(Park) = Outcomes(parked))
           => (resp = parked.resp /\ resp.count = 1)

\* both requests went through an extraction failure and the retry run, and
\* got their texts from different models
C23_Witness ==
    /\ pc = "done" /\ parked.pc = "done"
    /\ req = parked.req
    /\ resp.status = 200 /\ parked.resp.status = 200
    /\ Len(calls) >= 2 /\ calls[1].text = R_Prose
    /\ calls[Len(calls)].model = "fallback-1"
    /\ calls[1].model # parked.calls[Len(parked.calls)].model

(* ------------------------------------------------------------------ *)
(* The success response                                                *)
(* ------------------------------------------------------------------ *)

\* the real pipeline answered 200
PipelineSucceeded ==
    pc = "done" /\ calls # <<>> /\ resp.status = 200

\* C24: the body of every success response of the real pipeline consists
\* of exactly the four fields score, level, reasons and suggestions.
C24_FourFieldsOnly ==
    PipelineSucceeded =>
        resp.body.fields = {"score", "level", "reasons", "suggestions"}

\* C24 (amended): the body of every success response of the real pipeline
\* consists of the four fields score, level, reasons and suggestions and of
\* _meta, whose model is a model the request could call, and of no other
\* field.
C24_FourFieldsAndMeta ==
    PipelineSucceeded =>
        /\ resp.body.fields = {"score", "level", "reasons", "suggestions", "_meta"}
        /\ resp.body.model \in {calls[i].model : i \in 1..Len(calls)}
        /\ resp.body.error = NoValue
        /\ resp.body.raw1 = <<>> /\ resp.body.raw2 = <<>>

C24_Witness ==
    /\ PipelineSucceeded
    /\ Len(calls) = 1
    /\ resp.body.level # <<>>

(* ------------------------------------------------------------------ *)
(* The relaxed retry after a rejected parameter                        *)
(* ------------------------------------------------------------------ *)

ParameterRejection ==
    "400 response_format is not supported"

\* call i is the strict call robustAsk awaits, and in this step it throws
\* the parameter-rejection error
StrictCallRejected(i) ==
    /\ i = run.awaiting
    /\ calls[i].status = "pending"
    /\ calls[i].responseFormat = "json_object"
    /\ Len(calls') >= i
    /\ calls'[i].status = "failed"
    /\ run'.lastError = ParameterRejection

\* call j is call i's model again, without response_format and with 550 tokens
RelaxedOf(cs, i, j) ==
    /\ cs[j].round = cs[i].round
    /\ cs[j].idx = cs[i].idx
    /\ cs[j].model = cs[i].model
    /\ cs[j].user = cs[i].user
    /\ cs[j].responseFormat = NoValue
    /\ cs[j].maxTokens = 550
    /\ cs[i].maxTokens = 700

\* every relaxed call directly follows the failed strict call to the same
\* model in the same run, and the call after it is not to that model again
RelaxedOnlyOnce ==
    \A j \in 1..Len(calls) :
        calls[j].responseFormat = NoValue =>
            /\ j > 1
            /\ calls[j - 1].status = "failed"
            /\ calls[j - 1].responseFormat = "json_object"
            /\ RelaxedOf(calls, j - 1, j)
            /\ (j < Len(calls) /\ calls[j + 1].round = calls[j].round) =>
                   /\ calls[j + 1].idx = calls[j].idx + 1
                   /\ calls[j + 1].responseFormat = "json_object"

\* C25: when the strict call to a model fails with a parameter-rejection
\* error, the very next upstream call is started in the same step, to the
\* same model, without response_format and with 550 tokens instead of 700,
\* and the request is not answered; that relaxed call is made exactly once
\* before another model is called.
C25_RelaxedRetryAfterRejection ==
    /\ [][\A i \in 1..Len(calls) :
            StrictCallRejected(i) =>
                /\ Len(calls') = Len(calls) + 1
                /\ i = Len(calls)
                /\ RelaxedOf(calls', i, i + 1)
                /\ calls'[i + 1].status = "pending"
                /\ run'.awaiting = i + 1
                /\ pc' = pc /\ resp' = resp]_vars
    /\ []RelaxedOnlyOnce

\* the strict call to the fallback model was rejected and the relaxed call
\* to the fallback model is pending
C25_Witness ==
    /\ Len(calls) = 4
    /\ calls[3].status = "failed" /\ calls[3].responseFormat = "json_object"
    /\ calls[3].idx = 2
    /\ calls[4].status = "pending" /\ calls[4].responseFormat = NoValue
    /\ calls[4].model = calls[3].model
    /\ run.lastError = ParameterRejection

(* ------------------------------------------------------------------ *)
(* The debug capability and the retry run                              *)
(* ------------------------------------------------------------------ *)

LastCall ==
    calls[Len(calls)]

\* the request is answered and the text the retry run returned is
\* extractable JSON
RetryTextExtractable ==
    /\ pc = "done"
    /\ calls # <<>>
    /\ LastCall.round = 2
    /\ LastCall.status = "ok"
    /\ extractJson(LastCall.text).ok

\* the answer is the success response with the normalized retry result and
\* without raw texts
NormalizedRetrySuccess ==
    LET n == normalizeResult(extractJson(LastCall.text).v)
    IN  /\ resp.status = 200
        /\ resp.body.fields = SuccessBody(n, NoValue).fields
        /\ resp.body.score = SuccessBody(n, NoValue).score
        /\ resp.body.level = n.level
        /\ resp.body.reasons = n.reasons
        /\ resp.body.suggestions = n.suggestions
        /\ resp.body.raw1 = <<>> /\ resp.body.raw2 = <<>>

\* C26: raw completion texts are attached only to a failure: a request
\* whose retry completion is extractable JSON ends in a success response
\* with the normalized result, with the debug capability enabled exactly
\* as without it.
C26_DebugKeepsRetrySuccess ==
    RetryTextExtractable => NormalizedRetrySuccess

(* ------------------------------------------------------------------ *)
(* The model named in the success response                             *)
(* ------------------------------------------------------------------ *)

\* C27: in every success response of the real pipeline, _meta.model is the
\* model whose completion text was extracted and normalized (the last call
\* that returned), also when that text came from the retry run and another
\* model answered it.
C27_MetaNamesExtractedModel ==
    PipelineSucceeded =>
        /\ LastCall.status = "ok"
        /\ resp.body.suggestions =
              normalizeResult(extractJson(LastCall.text).v).suggestions
        /\ resp.body.model = LastCall.model

(* ------------------------------------------------------------------ *)
(* The suggestions normalizeResult returns                             *)
(* ------------------------------------------------------------------ *)

\* the entries of the candidate's suggestions, position by position: a text
\* entry trimmed, any other entry empty
TrimmedEntries ==
    LET sg == Get(CandidateObject, K_suggestions)
    IN  IF sg.k = "array"
        THEN [i \in 1..Len(sg.a) |-> IF sg.a[i].k = "string" THEN trim(sg.a[i].s) ELSE <<>>]
        ELSE <<>>

\* entry i is not empty, its key has 6 characters or more and it contains
\* no denylisted phrase
NotRemoved(e, i) ==
    e[i] # <<>> /\ Len(SuggestionKey(e[i])) >= 6 /\ ~IsGeneric(e[i])

\* the positions that survive: not removed, and the first with their key
Surviving(e) ==
    {i \in 1..Len(e) :
        /\ NotRemoved(e, i)
        /\ \A m \in 1..(i - 1) :
              NotRemoved(e, m) => SuggestionKey(e[m]) # SuggestionKey(e[i])}

\* the n-th position of a set of positions
NthOf(K, n) ==
    CHOOSE i \in K : Cardinality({m \in K : m < i}) = n - 1

\* C28: the suggestions returned by normalizeResult are the candidate's text
\* entries, trimmed, without the empty entries, the entries whose key has
\* fewer than 6 characters and the entries containing a denylisted phrase,
\* de-duplicated by key keeping the first occurrence, in input order,
\* truncated to the first 6; and the fixed 4-item fallback list exactly
\* when no entry survives.
C28_SuggestionsContract ==
    norm.done =>
        LET e == TrimmedEntries
            K == Surviving(e)
            n == IF Cardinality(K) < 6 THEN Cardinality(K) ELSE 6
        IN  IF K = {}
            THEN norm.r.suggestions = <<FALLBACK_1, FALLBACK_2, FALLBACK_3, FALLBACK_4>>
            ELSE /\ norm.r.suggestions = [j \in 1..n |-> e[NthOf(K, j)]]
                 /\ norm.r.suggestions # <<FALLBACK_1, FALLBACK_2, FALLBACK_3, FALLBACK_4>>

\* an entry with blanks around it comes first, its duplicate by key is
\* dropped and the entry between them is kept
C28_Witness ==
    /\ norm.done
    /\ Len(TrimmedEntries) = 3
    /\ Surviving(TrimmedEntries) = {1, 2}
    /\ Get(CandidateObject, K_suggestions).a[1].s # TrimmedEntries[1]
    /\ norm.r.suggestions = <<TrimmedEntries[1], TrimmedEntries[2]>>

(* ------------------------------------------------------------------ *)
(* extractJson and the first fenced block                              *)
(* ------------------------------------------------------------------ *)

\* the text handed to extractJson
WrappedText ==
    Wrap(xj.j, xj.w)

\* the text between two triple backticks of ts, without the json tag
Between(ts) ==
    LET open  == CHOOSE i \in 1..Len(ts) :
                    ts[i].t = "fence" /\ \A m \in 1..(i - 1) : ts[m].t # "fence"
        close == CHOOSE i \in (open + 1)..Len(ts) :
                    ts[i].t = "fence" /\ \A m \in (open + 1)..(i - 1) : ts[m].t # "fence"
        inner == SubSeq(ts, open + 1, close - 1)
    IN  IF inner # <<>> /\ inner[1] = TWord(W_json) THEN Tail(inner) ELSE inner

\* the interior of the first fenced block of the wrapped text: the block of
\* the prose before J, else the block around J, else the block after J
FirstBlockInterior ==
    IF HasTok(xj.w.pre, {"fence"}) THEN Between(xj.w.pre)
    ELSE IF xj.w.fenced THEN xj.w.pad \o Stringify(xj.j) \o xj.w.pad
    ELSE Between(xj.w.post)

HasBlock ==
    xj.w.fenced \/ HasTok(xj.w.pre, {"fence"}) \/ HasTok(xj.w.post, {"fence"})

\* C29: when the raw text contains a fenced block, extractJson parses only
\* the trimmed interior of the first such block, after first-brace/last-brace
\* slicing inside it: the result is the result for that interior alone,
\* whatever text is outside the block and whatever block comes later.
C29_FirstBlockOnly ==
    (xj.done /\ HasBlock) =>
        xj.out = JSONparse(SliceBraces(TrimToks(FirstBlockInterior)))

(* ------------------------------------------------------------------ *)
(* A submission: wakeServer, then POST /assess                         *)
(* ------------------------------------------------------------------ *)

\* attempts of wakeServer in a submission
SubmitAttempts ==
    2

\* the calls of a submission: wakeServer with the default backoff, probes
\* answered 200 or 503, and the requests the form sends
SubmitGuard ==
    /\ wake.pc # "idle" => (wake.maxAttempts = SubmitAttempts /\ wake.start = 500)
    /\ \A i \in 1..Len(wake.probes) : wake.probes[i].status \in {0, 200, 503}
    /\ req \in {NoRequest,
                [body |-> Body(GoodAnswers), query |-> PlainQuery],
                [body |-> Body(GoodAnswers), query |-> Query("1", NoValue, NoValue, NoValue)]}
    /\ \A i \in 1..Len(calls) : calls[i].text \in TwoRaws

InitSubmit ==
    InitTwo

\* handleSubmit: await wakeServer(...), then the POST, which the server
\* handles
NextSubmit ==
    \/ WakeCall /\ SubmitGuard'
    \/ HeadReturns /\ SubmitGuard'
    \/ GetReturns /\ SubmitGuard'
    \/ ProbeThrows
    \/ BackoffElapses
    \/ wake.pc = "returned" /\ ReceiveMock /\ SubmitGuard'
    \/ wake.pc = "returned" /\ ReceiveAssess /\ SubmitGuard'
    \/ UpstreamFail
    \/ UpstreamReturn /\ SubmitGuard'

SpecSubmit ==
    InitSubmit /\ [][NextSubmit]_vars

\* in this step the pending probe throws (its timeout aborts it, or the
\* network fails)
ProbeFails ==
    /\ wake.pc \in {"head", "get"}
    /\ Len(wake'.probes) = Len(wake.probes)
    /\ wake'.probes[Len(wake.probes)].state = "threw"

\* in this step the backoff after a failed attempt ends
WaitEnds ==
    wake.pc = "wait" /\ wake'.pc # "wait"

\* in this step the completion call i, which robustAsk awaits, throws
CompletionFails(i) ==
    /\ pc \in {"round1", "round2"}
    /\ i = run.awaiting
    /\ calls[i].status = "pending"
    /\ Len(calls') >= i
    /\ calls'[i].status = "failed"

\* robustAsk has an attempt left after call i: the relaxed call to the same
\* model or the strict call to the next model
AttemptLeft(i) ==
    calls[i].responseFormat = "json_object" \/ calls[i].idx < Len(run.models)

\* C30: a failure of one call, its timeout included, ends only that call.
\* A probe that throws ends its attempt: wakeServer does not throw, it waits
\* the backoff of the attempt and then starts the next attempt, if one is
\* left.  A completion call that throws ends one attempt: robustAsk starts
\* the next attempt, if one is left, and the request is not answered; the
\* calls made before keep their outcome.
C30_FailureEndsOneCallOnly ==
    [][/\ ProbeFails =>
              /\ wake'.pc = "wait"
              /\ wake'.errors = wake.errors
              /\ wake'.attempt = wake.attempt
              /\ wake'.waits = Append(wake.waits, wake.backoff)
       /\ WaitEnds =>
              /\ wake'.attempt = wake.attempt + 1
              /\ IF wake.attempt < wake.maxAttempts
                 THEN /\ wake'.pc = "head"
                      /\ wake'.probes = Append(wake.probes, Probe(wake', "HEAD"))
                      /\ wake'.errors = wake.errors
                 ELSE wake'.pc = "thrown"
       /\ \A i \in 1..Len(calls) :
              CompletionFails(i) =>
                  /\ \A m \in 1..Len(calls) : m # i => calls'[m] = calls[m]
                  /\ IF AttemptLeft(i)
                     THEN /\ Len(calls') = Len(calls) + 1
                          /\ calls'[Len(calls')].status = "pending"
                          /\ calls'[Len(calls')].round = calls[i].round
                          /\ run'.awaiting = Len(calls')
                          /\ pc' = pc /\ resp' = resp
                     ELSE /\ Len(calls') = Len(calls)
                          /\ pc' = "done" /\ resp'.status = 500]_vars

\* the HEAD probe of the first attempt was aborted, the second attempt woke
\* the server; the first completion call timed out and the next attempt's
\* call returned the text that was answered
C30_Witness ==
    /\ wake.pc = "returned"
    /\ Len(wake.probes) >= 2
    /\ wake.probes[1].state = "threw" /\ wake.probes[1].cause = "AbortError"
    /\ wake.probes[2].attempt = 2
    /\ wake.waits = <<500>>
    /\ pc = "done" /\ resp.status = 200
    /\ Len(calls) = 2
    /\ calls[1].status = "failed" /\ calls[2].status = "ok"
    /\ run.lastError = "Request timed out."

(* ------------------------------------------------------------------ *)
(* The web client: the App component                                   *)
(*                                                                     *)
(* ui holds the state of the component (phase, whether the ticker's    *)
(* interval is set, whether the four answers are filled in, whether a  *)
(* result and a server model are set, the error message) and its       *)
(* tasks: the prewarm task the effect starts at mount (pre) and one    *)
(* task per call of handleSubmit (subs), each with its own call of     *)
(* wakeServer.  A task runs from one await to the next in one step.    *)
(* The server is the environment: a probe or a request returns a       *)
(* status or throws.                                                   *)
(* The component stays mounted.                                        *)
(* ------------------------------------------------------------------ *)

\* calls of handleSubmit followed
MaxSubmissions ==
    2

\* wakeServer({ ..., maxAttempts: 3, startBackoffMs: 300, ... }) of the prewarm task
PrewarmAttempts ==
    3

\* what a probe or a request of the client is answered with
ClientStatuses ==
    {200, 503}

ClientCauses ==
    {"AbortError"}

\* a task's call of wakeServer without the record of its past probes and
\* waits: the pending probe is all it keeps
Current(w) ==
    [w EXCEPT !.probes = IF w.pc \in {"head", "get"} THEN <<@[Len(@)]>> ELSE <<>>,
              !.waits = <<>>]

\* wakeServer({ healthUrl, maxAttempts, startBackoffMs }) up to its first await
StartWake(url, maxAttempts, startBackoffMs) ==
    Current(LoopTop([NoWake EXCEPT !.url = url, !.maxAttempts = maxAttempts,
                                   !.start = startBackoffMs, !.backoff = startBackoffMs,
                                   !.attempt = 1]))

\* wakeServer from one await to the next: the probe returns or throws, or
\* the backoff timer fires
WakeSteps(w) ==
    CASE w.pc = "head" ->
            {Current(Proceed(Returned(w, st), AfterHead(st))) : st \in ClientStatuses}
            \cup {Current(StartWait(Threw(w, c))) : c \in ClientCauses}
      [] w.pc = "get" ->
            {Current(Proceed(Returned(w, st), AfterGet(st))) : st \in ClientStatuses}
            \cup {Current(StartWait(Threw(w, c))) : c \in ClientCauses}
      [] w.pc = "wait" ->
            {Current(LoopTop([w EXCEPT !.backoff = NextBackoff(w.backoff),
                                       !.attempt = @ + 1]))}
      [] OTHER -> {}

\* answers.every(a => a.trim().length > 0) && phase !== "waking" && phase !== "submitting"
canSubmit(u) ==
    u.filled /\ u.phase \notin {"waking", "submitting"}

InitClient ==
    /\ IdlePipe
    /\ norm2 = NoNorm
    /\ xj = NoExtract
    /\ rl = NoLimiter
    /\ wake = NoWake

ClientOnly ==
    UNCHANGED <<parked, pipeVars, cand, norm, norm2, xj, rl, wake>>

\* the effect at mount: setPhase("prewarming") and the GET /meta
Mount ==
    /\ ui.pre.pc = "mount"
    /\ ui' = [ui EXCEPT !.phase = "prewarming", !.pre.pc = "meta"]
    /\ ClientOnly

\* wakeServer of the prewarm task, called when /meta is dealt with
PrewarmWake(u) ==
    [u EXCEPT !.pre.pc = "wake",
              !.pre.w = StartWake("https://api.example/", PrewarmAttempts, 300)]

\* GET /meta returns ok (m.json() is awaited), returns another status or throws
MetaSettles ==
    /\ ui.pre.pc = "meta"
    /\ \E ok \in BOOLEAN :
          ui' = IF ok THEN [ui EXCEPT !.pre.pc = "json"] ELSE PrewarmWake(ui)
    /\ ClientOnly

\* m.json() returns (if (mounted && j?.model) setServerModel(j.model)) or throws
MetaJson ==
    /\ ui.pre.pc = "json"
    /\ \E returned \in BOOLEAN :
          ui' = PrewarmWake([ui EXCEPT !.serverModel = @ \/ returned])
    /\ ClientOnly

\* the prewarm task when its wakeServer has returned or thrown:
\* catch {} finally { if (mounted) setPhase("idle") }
PrewarmEnds(u) ==
    [u EXCEPT !.phase = "idle", !.pre.pc = "finished"]

PrewarmStep ==
    /\ ui.pre.pc = "wake"
    /\ \E w2 \in WakeSteps(ui.pre.w) :
          LET u2 == [ui EXCEPT !.pre.w = w2]
          IN  ui' = IF w2.pc \in {"returned", "thrown"} THEN PrewarmEnds(u2) ELSE u2
    /\ ClientOnly

\* the user edits the answers: all four filled in, or not
EditAnswers ==
    /\ ui.pre.pc # "mount"
    /\ ui' = [ui EXCEPT !.filled = ~ui.filled]
    /\ ClientOnly

\* the button is enabled and pressed: handleSubmit up to await wakeServer(...)
Submit ==
    /\ ui.pre.pc # "mount"
    /\ canSubmit(ui)
    /\ Len(ui.subs) < MaxSubmissions
    /\ ui' = [ui EXCEPT !.errMsg = "", !.result = FALSE,
                        !.phase = "waking", !.ticker = TRUE,
                        !.subs = Append(@, [pc |-> "wake", sent |-> FALSE,
                                            w |-> StartWake("https://api.example/",
                                                            SubmitAttempts, 500)])]
    /\ ClientOnly

\* catch (err) { setErrMsg(...); setPhase("error") } finally { stopTicker() }
Caught(u, k, message) ==
    [u EXCEPT !.errMsg = message, !.phase = "error", !.ticker = FALSE,
              !.subs[k].pc = "finished"]

AfterWakeServer_PostAnyway(wpc) ==
    IF wpc \in {"returned", "thrown"} THEN "post" ELSE "wake"

\* handleSubmit after await wakeServer(...): it goes on to the POST when
\* wakeServer has returned, to the catch when it has thrown
AfterWakeServer(wpc) ==
    IF wpc = "returned" THEN "post"
    ELSE IF wpc = "thrown" THEN "catch"
    ELSE "wake"

\* wakeServer of submission k goes on; when it returns: setPhase("submitting")
\* and the POST /assess
SubmitWakeStep ==
    /\ \E k \in 1..Len(ui.subs) :
          /\ ui.subs[k].pc = "wake"
          /\ \E w2 \in WakeSteps(ui.subs[k].w) :
                LET u2 == [ui EXCEPT !.subs[k].w = w2]
                    to == AfterWakeServer(w2.pc)
                IN  ui' = CASE to = "post" ->
                                  [u2 EXCEPT !.phase = "submitting", !.subs[k].pc = "post",
                                             !.subs[k].sent = TRUE]
                            [] to = "catch" -> Caught(u2, k, w2.errors[Len(w2.errors)])
                            [] OTHER -> u2
    /\ ClientOnly

\* the POST returns a response (res.text() or res.json() is awaited) or throws
PostSettles ==
    /\ \E k \in 1..Len(ui.subs) :
          /\ ui.subs[k].pc = "post"
          /\ \/ \E st \in ClientStatuses :
                   ui' = [ui EXCEPT !.subs[k].pc = IF st = 200 THEN "json" ELSE "text",
                                    !.serverModel = @ \/ st = 200]
             \/ \E c \in ClientCauses : ui' = Caught(ui, k, c)
    /\ ClientOnly

\* res.text() settles: throw new Error(`API ${res.status}: ${text}`)
\* res.json() returns: setResult(data); setPhase("done"); finally stopTicker();
\* or it throws
BodyRead ==
    /\ \E k \in 1..Len(ui.subs) :
          \/ /\ ui.subs[k].pc = "text"
             /\ ui' = Caught(ui, k, "API 503")
          \/ /\ ui.subs[k].pc = "json"
             /\ \/ ui' = [ui EXCEPT !.result = TRUE, !.phase = "done", !.ticker = FALSE,
                                    !.subs[k].pc = "finished"]
                \/ ui' = Caught(ui, k, "SyntaxError")
    /\ ClientOnly

NextClient ==
    \/ Mount
    \/ MetaSettles
    \/ MetaJson
    \/ PrewarmStep
    \/ EditAnswers
    \/ Submit
    \/ SubmitWakeStep
    \/ PostSettles
    \/ BodyRead

SpecClient ==
    InitClient /\ [][NextClient]_vars

\* C31: in handleSubmit the /assess request is sent only after wakeServer
\* has returned within that same submission, in the step in which it
\* returns; when wakeServer throws, no /assess request is sent by that
\* submission and the phase becomes error in that step.
C31_PostOnlyAfterWake ==
    /\ [](\A k \in 1..Len(ui.subs) :
             /\ ui.subs[k].sent => ui.subs[k].w.pc = "returned"
             /\ ui.subs[k].pc \in {"post", "text", "json"} => ui.subs[k].sent
             /\ ui.subs[k].w.pc = "thrown" =>
                    (~ui.subs[k].sent /\ ui.subs[k].pc = "finished"))
    /\ [][\A k \in 1..Len(ui.subs) :
             /\ (~ui.subs[k].sent /\ ui'.subs[k].sent) =>
                    /\ ui.subs[k].w.pc \in {"head", "get"}
                    /\ ui'.subs[k].w.pc = "returned"
                    /\ ui'.phase = "submitting"
             /\ (ui.subs[k].w.pc # "thrown" /\ ui'.subs[k].w.pc = "thrown") =>
                    /\ ui'.phase = "error"
                    /\ ui'.errMsg = "Server did not wake in time"
                    /\ ~ui'.ticker
                    /\ ui'.subs[k].pc = "finished"]_vars

\* the first submission's wakeServer has thrown and the phase is error; a
\* later submission's wakeServer has returned and its request is sent
C31_Witness ==
    /\ Len(ui.subs) = 2
    /\ ui.subs[1].w.pc = "thrown" /\ ~ui.subs[1].sent
    /\ ui.subs[2].w.pc = "returned" /\ ui.subs[2].sent /\ ui.subs[2].pc = "post"
    /\ ui.phase = "submitting"

\* submission k has set phase to waking and has not yet set done or error
InProgress(k) ==
    ui.subs[k].pc # "finished"

\* C32: at most one submission is in progress at any time: while a call of
\* handleSubmit is between setting phase to waking and setting done or
\* error, canSubmit is false and no second handleSubmit has started,
\* whatever the prewarm task does in between.
C32_OneSubmissionInProgress ==
    /\ Cardinality({k \in 1..Len(ui.subs) : InProgress(k)}) <= 1
    /\ (\E k \in 1..Len(ui.subs) : InProgress(k)) => ~canSubmit(ui)

\* in this step a call of handleSubmit starts
SubmissionStarts ==
    /\ Len(ui'.subs) = Len(ui.subs) + 1
    /\ ui'.phase = "waking"

\* C33: once handleSubmit has set the phase to done or error, the ticker is
\* stopped and the phase keeps that value until the next submission
\* starts: no step other than the start of a submission changes it.
C33_OutcomeStaysShown ==
    /\ [](ui.phase \in {"done", "error"} => ~ui.ticker)
    /\ [][(ui.phase \in {"done", "error"} /\ ui'.phase # ui.phase) => SubmissionStarts]_vars

(* ------------------------------------------------------------------ *)
(* Every request is answered once                                      *)
(* ------------------------------------------------------------------ *)

\* every upstream call returns or fails
SpecLive ==
    Spec /\ WF_vars(UpstreamFail \/ UpstreamReturn)

\* 2 runs of robustAsk, 2 calls per model, 1 + number of fallback models
MaxCalls ==
    2 * 2 * (1 + Len(cfg.fallbacks))

\* C34: every /assess request that reaches the handler ends with exactly
\* one response, after at most 2 * 2 * (1 + number of fallback models)
\* upstream calls, provided each upstream call returns or fails: never two
\* responses, none only while a call is awaited, and a request that awaits
\* a call is answered in the end.
C34_ExactlyOneResponse ==
    /\ [](/\ resp.count <= 1
          /\ Len(calls) <= MaxCalls
          /\ pc = "done" => (resp.count = 1 /\ Pending = {})
          /\ pc \in {"round1", "round2"} => (resp.count = 0 /\ Pending # {}))
    /\ (pc \in {"round1", "round2"}) ~> (pc = "done" /\ resp.count = 1)

\* a request answered after the largest number of calls: both runs went
\* through every model, strict and relaxed
C34_Witness ==
    /\ pc = "done"
    /\ resp.count = 1
    /\ Len(cfg.fallbacks) >= 1
    /\ Len(calls) = MaxCalls

====
